---- MODULE Spec2Model ----
(***************************************************************************)
(* State-machine model of the recommendation engine of                     *)
(* src/recommendation_engine.py: sector normalisation, persona inference,  *)
(* the data-quality check, the five generators and the aggregation         *)
(* pipeline of generate_recommendations (freshness, sort, dedup, cap).     *)
(*                                                                         *)
(* Units.  change_pct is held in hundredths (0.02 is 2, -0.03 is -3).      *)
(* priority is held in thousandths (0.90 is 900), so that the 0.7          *)
(* degradation factor is exact (900 * 7 \div 10 = 630).  Time is in        *)
(* minutes.  The message strings of the items are not modelled.            *)
(***************************************************************************)
EXTENDS Integers, Sequences, FiniteSets, TLC

VARIABLES market_df, market_df0, now, sortTies, req, pc, frame, out

vars == <<market_df, market_df0, now, sortTies, req, pc, frame, out>>

-----------------------------------------------------------------------------
(* Python values: None, float NaN, a number, a string.                     *)

None == [t |-> "none", n |-> 0, s |-> ""]
NaN == [t |-> "nan", n |-> 0, s |-> ""]
Num(k) == [t |-> "num", n |-> k, s |-> ""]
Str(x) == [t |-> "str", n |-> 0, s |-> x]

(* bool(v): None, 0 and "" are falsy; NaN is truthy.                       *)
Truthy(v) ==
    CASE v.t = "none" -> FALSE
      [] v.t = "nan" -> TRUE
      [] v.t = "num" -> v.n # 0
      [] OTHER -> v.s # ""

(* a or b *)
Or(a, b) == IF Truthy(a) THEN a ELSE b

(* pd.isna(v) *)
IsNa(v) == v.t \in {"none", "nan"}

-----------------------------------------------------------------------------
(* Strings: str.lower, str.strip, str.replace("&", "and"), " ".join(split) *)

UpperChars == "ABCDEFGHIJKLMNOPQRSTUVWXYZ"
LowerChars == "abcdefghijklmnopqrstuvwxyz"
DigitChars == "0123456789"

CharAt(s, i) == SubSeq(s, i, i)

RECURSIVE IndexIn(_, _, _)
IndexIn(c, alphabet, i) ==
    IF i > Len(alphabet) THEN 0
    ELSE IF CharAt(alphabet, i) = c THEN i
    ELSE IndexIn(c, alphabet, i + 1)

LowerTable == [i \in 1..Len(UpperChars) |-> CharAt(LowerChars, i)]
UpperIndex == [c \in {CharAt(UpperChars, i) : i \in 1..Len(UpperChars)} |->
                  CHOOSE i \in 1..Len(UpperChars) : CharAt(UpperChars, i) = c]

LowerChar(c) == IF c \in DOMAIN UpperIndex THEN LowerTable[UpperIndex[c]] ELSE c

RECURSIVE Lower(_)
Lower(s) ==
    IF s = "" THEN ""
    ELSE LowerChar(CharAt(s, 1)) \o Lower(SubSeq(s, 2, Len(s)))

IsSpace(c) == c = " "

RECURSIVE LStrip(_)
LStrip(s) ==
    IF s # "" /\ IsSpace(CharAt(s, 1)) THEN LStrip(SubSeq(s, 2, Len(s))) ELSE s

RECURSIVE RStrip(_)
RStrip(s) ==
    IF s # "" /\ IsSpace(CharAt(s, Len(s))) THEN RStrip(SubSeq(s, 1, Len(s) - 1)) ELSE s

Strip(s) == RStrip(LStrip(s))

RECURSIVE ReplaceAmp(_)
ReplaceAmp(s) ==
    IF s = "" THEN ""
    ELSE (IF CharAt(s, 1) = "&" THEN "and" ELSE CharAt(s, 1))
         \o ReplaceAmp(SubSeq(s, 2, Len(s)))

(* " ".join(s.split()): outer whitespace removed, inner runs become one.   *)
RECURSIVE CollapseRuns(_)
CollapseRuns(s) ==
    IF Len(s) < 2 THEN s
    ELSE IF IsSpace(CharAt(s, 1)) /\ IsSpace(CharAt(s, 2))
         THEN CollapseRuns(SubSeq(s, 2, Len(s)))
         ELSE CharAt(s, 1) \o CollapseRuns(SubSeq(s, 2, Len(s)))

JoinSplit(s) == CollapseRuns(Strip(s))

(* str(v): str(None) = "None", str(nan) = "nan"; numbers are not needed as *)
(* text by any comparison of the engine and print as "#".                  *)
ToStr(v) ==
    CASE v.t = "none" -> "None"
      [] v.t = "nan" -> "nan"
      [] v.t = "num" -> "#"
      [] OTHER -> v.s

RECURSIVE AllDigits(_)
AllDigits(s) ==
    s = "" \/ (IndexIn(CharAt(s, 1), DigitChars, 1) # 0 /\ AllDigits(SubSeq(s, 2, Len(s))))

RECURSIVE DigitsValue(_)
DigitsValue(s) ==
    IF s = "" THEN 0
    ELSE 10 * DigitsValue(SubSeq(s, 1, Len(s) - 1))
         + (IndexIn(CharAt(s, Len(s)), DigitChars, 1) - 1)

(* Is the text of a string a (non-negative, integral) number?  int(), float() *)
(* and pd.to_numeric all strip surrounding whitespace first.               *)
ParsesAsNumber(v) == v.t = "str" /\ Strip(v.s) # "" /\ AllDigits(Strip(v.s))

-----------------------------------------------------------------------------
(* Sector normalisation (11 buckets)                                       *)

SECTOR_MAP_11 ==
    ("banking" :> "Financials") @@
    ("financials" :> "Financials") @@
    ("investment" :> "Financials") @@
    ("jordan securities" :> "Financials") @@
    ("pakistani securities" :> "Financials") @@
    ("kenian securities" :> "Financials") @@
    ("basic materials" :> "Materials") @@
    ("materials" :> "Materials") @@
    ("industrial" :> "Industrials") @@
    ("industrials" :> "Industrials") @@
    ("industries" :> "Industrials") @@
    ("services" :> "Industrials") @@
    ("others" :> "Industrials") @@
    ("consumer discretionary" :> "Consumer Discretionary") @@
    ("consumer services" :> "Consumer Discretionary") @@
    ("tourism" :> "Consumer Discretionary") @@
    ("trade" :> "Consumer Discretionary") @@
    ("consumer staples" :> "Consumer Staples") @@
    ("food" :> "Consumer Staples") @@
    ("energy" :> "Energy") @@
    ("health care" :> "Healthcare") @@
    ("healthcare" :> "Healthcare") @@
    ("technology" :> "Technology") @@
    ("information technology" :> "Technology") @@
    ("real estate" :> "Real Estate") @@
    ("realestate" :> "Real Estate") @@
    ("telecommunication services" :> "Telecommunications") @@
    ("telecommunications" :> "Telecommunications")

(* an unrecognised label is handed back as written *)
std_sector_11_passthrough(label) ==
    IF IsNa(label) THEN "Unknown"
    ELSE LET s == JoinSplit(ReplaceAmp(Lower(Strip(ToStr(label)))))
         IN IF s \in DOMAIN SECTOR_MAP_11 THEN SECTOR_MAP_11[s] ELSE ToStr(label)

std_sector_11(label) ==
    IF IsNa(label) THEN "Unknown"
    ELSE LET s == JoinSplit(ReplaceAmp(Lower(Strip(ToStr(label)))))
         IN IF s \in DOMAIN SECTOR_MAP_11 THEN SECTOR_MAP_11[s] ELSE "Unknown"

UnknownWords == {"", "na", "n/a", "none", "null", "unknown"}

is_unknown(val) ==
    IF val.t = "none" THEN TRUE
    ELSE Lower(Strip(ToStr(val))) \in UnknownWords

-----------------------------------------------------------------------------
(* Numeric coercions of portfolio fields                                   *)

(* int(x or 0) raises ValueError on NaN and on text that is no number.     *)
IntRaises(v) ==
    LET x == Or(v, Num(0))
    IN x.t = "nan" \/ (x.t = "str" /\ ~ParsesAsNumber(x))

IntOf(v) ==
    LET x == Or(v, Num(0))
    IN IF x.t = "str" THEN DigitsValue(Strip(x.s)) ELSE x.n

(* float(x or 0.0) raises ValueError on text that is no number; NaN passes. *)
FloatRaises(v) ==
    LET x == Or(v, Num(0))
    IN x.t = "str" /\ ~ParsesAsNumber(x)

FloatOf(v) ==
    LET x == Or(v, Num(0))
    IN IF x.t = "str" THEN Num(DigitsValue(Strip(x.s))) ELSE x

(* pd.to_numeric(cell, errors="coerce") *)
ToNumeric(v) ==
    CASE v.t = "num" -> v
      [] ParsesAsNumber(v) -> Num(DigitsValue(Strip(v.s)))
      [] OTHER -> NaN

-----------------------------------------------------------------------------
(* Results of the generators: the items returned, or an exception raised.  *)

Items(seq) == [raised |-> FALSE, items |-> seq]
NoItem == Items(<< >>)
Raises == [raised |-> TRUE, items |-> << >>]

NoEvidence ==
    [alt_stock |-> None, stock |-> None, change_pct |-> None,
     sector_std |-> None, alt_sector_std |-> None,
     user_sector_mentioned |-> None, user_sector_std |-> None,
     sector_mentioned |-> None, sector_share |-> None, issues |-> << >>]

Rec(type, priority, evidence) ==
    [type |-> type, priority |-> priority, evidence |-> evidence, stale |-> FALSE]

PRIO_DATA_QUALITY == 300
PRIO_CONCENTRATION == 900
PRIO_DIVERSIFICATION == 750
PRIO_WITHIN_PROFITABLE == 700
PRIO_WITHIN_PRIMARY == 700
PRIO_MOVER_UP == 650
PRIO_WATCHLIST_DROP == 500

-----------------------------------------------------------------------------
(* Persona                                                                 *)

PersonaRaises(portfolio) ==
    \/ IntRaises(portfolio.daysasclient)
    \/ IntRaises(portfolio.totaltradesin24)
    \/ IntRaises(portfolio.durationheld)

(* months counted in whole months (tenure_days // 30) *)
infer_risk_persona_whole_months(portfolio) ==
    LET tenure_days == IntOf(portfolio.daysasclient)
        trades_24 == IntOf(portfolio.totaltradesin24)
        avg_hold == IntOf(portfolio.durationheld)
        months == IF tenure_days \div 30 >= 1 THEN tenure_days \div 30 ELSE 1
        activity == IF trades_24 >= 4 * months THEN 2
                    ELSE IF trades_24 >= 2 * months THEN 1 ELSE 0
        holding == IF avg_hold <= 45 THEN 2 ELSE IF avg_hold <= 90 THEN 1 ELSE 0
        tenure == IF tenure_days >= 1000 THEN 2 ELSE IF tenure_days >= 365 THEN 1 ELSE 0
        score == activity + holding - tenure
    IN IF score >= 2 THEN [label |-> "Aggressive", confidence |-> 75]
       ELSE IF score <= -1 THEN [label |-> "Conservative", confidence |-> 70]
       ELSE [label |-> "Balanced", confidence |-> 65]

infer_risk_persona(portfolio) ==
    LET tenure_days == IntOf(portfolio.daysasclient)
        trades_24 == IntOf(portfolio.totaltradesin24)
        avg_hold == IntOf(portfolio.durationheld)
        (* tpm >= k with months = max(1.0, tenure_days / 30.0) *)
        TpmAtLeast(k) ==
            IF tenure_days <= 30 THEN trades_24 >= k
            ELSE trades_24 * 30 >= k * tenure_days
        activity == IF TpmAtLeast(4) THEN 2 ELSE IF TpmAtLeast(2) THEN 1 ELSE 0
        holding == IF avg_hold <= 45 THEN 2 ELSE IF avg_hold <= 90 THEN 1 ELSE 0
        tenure == IF tenure_days >= 1000 THEN 2 ELSE IF tenure_days >= 365 THEN 1 ELSE 0
        score == activity + holding - tenure
    IN IF score >= 2 THEN [label |-> "Aggressive", confidence |-> 75]
       ELSE IF score <= -1 THEN [label |-> "Conservative", confidence |-> 70]
       ELSE [label |-> "Balanced", confidence |-> 65]

-----------------------------------------------------------------------------
(* Data quality checks                                                     *)

IssueInterval == "interval_start occurs after interval_end"
IssueSector == "mosttradedsector is 'Unknown' while sector volume/trades exist"

StartsWith(s, prefix) ==
    Len(s) >= Len(prefix) /\ SubSeq(s, 1, Len(prefix)) = prefix

(* pd.to_datetime(x, errors="coerce"): a timestamp, or NaT.                *)
ToDatetime(v) == IF v.t = "num" THEN v ELSE NaN

(* an interval issue alone is reported as well *)
data_quality_checks_unsuppressed(p) ==
    LET start == ToDatetime(p.interval_start)
        end == ToDatetime(p.interval_end)
        intervalIssue ==
            IF start.t = "num" /\ end.t = "num" /\ start.n > end.n
            THEN <<IssueInterval>> ELSE << >>
        sector_vol == FloatOf(p.tradesvolumeofmosttradedsector)
        sector_trades == IntOf(p.numberoftradesinmosttradedsector)
        sectorIssue ==
            IF /\ is_unknown(p.mosttradedsector)
               /\ ((sector_vol.t = "num" /\ sector_vol.n > 0) \/ sector_trades > 0)
            THEN <<IssueSector>> ELSE << >>
        issues == intervalIssue \o sectorIssue
    IN IF \/ FloatRaises(p.tradesvolumeofmosttradedsector)
          \/ IntRaises(p.numberoftradesinmosttradedsector)
       THEN Raises
       ELSE IF issues # << >>
            THEN Items(<<Rec("data_quality", PRIO_DATA_QUALITY,
                             [NoEvidence EXCEPT !.issues = issues])>>)
            ELSE NoItem

(* the item takes the priority of a diversification item *)
data_quality_checks_prominent(p) ==
    LET start == ToDatetime(p.interval_start)
        end == ToDatetime(p.interval_end)
        intervalIssue ==
            IF start.t = "num" /\ end.t = "num" /\ start.n > end.n
            THEN <<IssueInterval>> ELSE << >>
        most_traded_sector == p.mosttradedsector
        sector_vol == FloatOf(p.tradesvolumeofmosttradedsector)
        sector_trades == IntOf(p.numberoftradesinmosttradedsector)
        sectorIssue ==
            IF /\ is_unknown(most_traded_sector)
               /\ ((sector_vol.t = "num" /\ sector_vol.n > 0) \/ sector_trades > 0)
            THEN <<IssueSector>> ELSE << >>
        issues == intervalIssue \o sectorIssue
    IN IF \/ FloatRaises(p.tradesvolumeofmosttradedsector)
          \/ IntRaises(p.numberoftradesinmosttradedsector)
       THEN Raises
       ELSE IF /\ issues # << >>
               /\ ~(Len(issues) = 1 /\ StartsWith(issues[1], "interval_start"))
            THEN Items(<<Rec("data_quality", PRIO_DIVERSIFICATION,
                             [NoEvidence EXCEPT !.issues = issues])>>)
            ELSE NoItem

data_quality_checks(p) ==
    LET start == ToDatetime(p.interval_start)
        end == ToDatetime(p.interval_end)
        intervalIssue ==
            IF start.t = "num" /\ end.t = "num" /\ start.n > end.n
            THEN <<IssueInterval>> ELSE << >>
        most_traded_sector == p.mosttradedsector
        sector_vol == FloatOf(p.tradesvolumeofmosttradedsector)
        sector_trades == IntOf(p.numberoftradesinmosttradedsector)
        sectorIssue ==
            IF /\ is_unknown(most_traded_sector)
               /\ ((sector_vol.t = "num" /\ sector_vol.n > 0) \/ sector_trades > 0)
            THEN <<IssueSector>> ELSE << >>
        issues == intervalIssue \o sectorIssue
    IN IF \/ FloatRaises(p.tradesvolumeofmosttradedsector)
          \/ IntRaises(p.numberoftradesinmosttradedsector)
       THEN Raises
       ELSE IF /\ issues # << >>
               /\ ~(Len(issues) = 1 /\ StartsWith(issues[1], "interval_start"))
            THEN Items(<<Rec("data_quality", PRIO_DATA_QUALITY,
                             [NoEvidence EXCEPT !.issues = issues])>>)
            ELSE NoItem

-----------------------------------------------------------------------------
(* Sector concentration                                                    *)

THRESHOLD_NUM == 60
THRESHOLD_DEN == 100

(* the share has to exceed the threshold *)
check_sector_concentration_strict(portfolio) ==
    LET mentioned_sector == portfolio.mosttradedsector
        sector_vol == FloatOf(portfolio.tradesvolumeofmosttradedsector)
        total_vol == FloatOf(portfolio.totaltradesvolumein24)
    IN IF is_unknown(mentioned_sector) THEN NoItem
       ELSE IF \/ FloatRaises(portfolio.tradesvolumeofmosttradedsector)
               \/ FloatRaises(portfolio.totaltradesvolumein24)
            THEN NoItem
       ELSE IF total_vol.t = "num" /\ total_vol.n <= 0 THEN NoItem
       ELSE IF sector_vol.t = "nan" \/ total_vol.t = "nan" THEN NoItem
       ELSE IF sector_vol.n * THRESHOLD_DEN > THRESHOLD_NUM * total_vol.n
            THEN Items(<<Rec("sector_concentration", PRIO_CONCENTRATION,
                     [NoEvidence EXCEPT
                        !.sector_mentioned = mentioned_sector,
                        !.sector_share =
                            Num((2 * 10000 * sector_vol.n + total_vol.n)
                                \div (2 * total_vol.n))])>>)
            ELSE NoItem

(* an unknown sector label is not skipped *)
check_sector_concentration_any_label(portfolio) ==
    LET mentioned_sector == portfolio.mosttradedsector
        sector_vol == FloatOf(portfolio.tradesvolumeofmosttradedsector)
        total_vol == FloatOf(portfolio.totaltradesvolumein24)
    IN IF \/ FloatRaises(portfolio.tradesvolumeofmosttradedsector)
          \/ FloatRaises(portfolio.totaltradesvolumein24)
       THEN NoItem
       ELSE IF total_vol.t = "num" /\ total_vol.n <= 0 THEN NoItem
       ELSE IF sector_vol.t = "nan" \/ total_vol.t = "nan" THEN NoItem
       ELSE IF sector_vol.n * THRESHOLD_DEN >= THRESHOLD_NUM * total_vol.n
            THEN Items(<<Rec("sector_concentration", PRIO_CONCENTRATION,
                     [NoEvidence EXCEPT
                        !.sector_mentioned = mentioned_sector,
                        !.sector_share =
                            Num((2 * 10000 * sector_vol.n + total_vol.n)
                                \div (2 * total_vol.n))])>>)
            ELSE NoItem

check_sector_concentration(portfolio) ==
    LET mentioned_sector == portfolio.mosttradedsector
        sector_vol == FloatOf(portfolio.tradesvolumeofmosttradedsector)
        total_vol == FloatOf(portfolio.totaltradesvolumein24)
    IN IF is_unknown(mentioned_sector) THEN NoItem
       ELSE IF \/ FloatRaises(portfolio.tradesvolumeofmosttradedsector)
               \/ FloatRaises(portfolio.totaltradesvolumein24)
            THEN NoItem   \* except Exception: return None
       ELSE IF total_vol.t = "num" /\ total_vol.n <= 0 THEN NoItem
       ELSE IF sector_vol.t = "nan" \/ total_vol.t = "nan" THEN NoItem  \* nan >= threshold is False
       ELSE IF sector_vol.n * THRESHOLD_DEN >= THRESHOLD_NUM * total_vol.n
            THEN Items(<<Rec("sector_concentration", PRIO_CONCENTRATION,
                     [NoEvidence EXCEPT
                        !.sector_mentioned = mentioned_sector,
                        !.sector_share =
                            Num((2 * 10000 * sector_vol.n + total_vol.n)
                                \div (2 * total_vol.n))])>>)
            ELSE NoItem

-----------------------------------------------------------------------------
(* The market table: a set of column names and a sequence of rows.  A row  *)
(* holds a value per possible column; the value of a column the table does *)
(* not have is None and is never read.                                     *)

Empty(df) == Len(df.rows) = 0 \/ df.columns = {}

(* Rows in order for which Keep holds *)
Filter(rows, Keep(_)) == SelectSeq(rows, Keep)

MapRows(rows, F(_)) == [i \in 1..Len(rows) |-> F(rows[i])]

Head_n(rows, n) == SubSeq(rows, 1, IF Len(rows) < n THEN Len(rows) ELSE n)

(* df.sort_values("change_pct", ascending=...) on rows whose change_pct is *)
(* a number.  pandas sorts with kind="quicksort", which is not stable: the *)
(* order of rows with equal change_pct depends on the numpy build.  ties   *)
(* is "first" (equal rows keep table order) or "last" (they are reversed). *)
RECURSIVE sort_values(_, _, _)
sort_values(rows, ascending, ties) ==
    IF rows = << >> THEN << >>
    ELSE LET Before(i, j) ==
                 \/ (ascending /\ rows[i].change_pct.n < rows[j].change_pct.n)
                 \/ (~ascending /\ rows[i].change_pct.n > rows[j].change_pct.n)
                 \/ /\ rows[i].change_pct.n = rows[j].change_pct.n
                    /\ IF ties = "first" THEN i < j ELSE i > j
             first == CHOOSE i \in 1..Len(rows) :
                         \A j \in (1..Len(rows)) \ {i} : Before(i, j)
             rest == [k \in 1..(Len(rows) - 1) |->
                         IF k < first THEN rows[k] ELSE rows[k + 1]]
         IN <<rows[first]>> \o sort_values(rest, ascending, ties)

(* df["change_pct"] = pd.to_numeric(df["change_pct"], errors="coerce") *)
CoerceChange(rows) ==
    MapRows(rows, LAMBDA r : [r EXCEPT !.change_pct = ToNumeric(r.change_pct)])

(* the column is added to the table passed in, not to a copy *)
ensure_market_sector_std_in_place(market) ==
    IF Empty(market) THEN [df |-> market, arg |-> market]
    ELSE LET df == IF "sector" \in market.columns
                   THEN [columns |-> market.columns \cup {"sector_std"},
                         rows |-> MapRows(market.rows,
                             LAMBDA r : [r EXCEPT !.sector_std = Str(std_sector_11(r.sector))])]
                   ELSE market
         IN [df |-> df, arg |-> df]

(* Returns the frame it hands back (df) and what the caller's table is     *)
(* after the call (arg): the column is added to a copy, so arg is the      *)
(* table as passed.                                                        *)
ensure_market_sector_std(market) ==
    IF Empty(market) THEN [df |-> market, arg |-> market]
    ELSE LET df == IF "sector" \in market.columns
                   THEN [columns |-> market.columns \cup {"sector_std"},
                         rows |-> MapRows(market.rows,
                             LAMBDA r : [r EXCEPT !.sector_std = Str(std_sector_11(r.sector))])]
                   ELSE market
         IN [df |-> df, arg |-> market]

get_user_sector_labels(portfolio) ==
    LET mentioned == Or(Or(portfolio.mosttradedsector, portfolio.mostprofitablesector),
                        Str(""))
        std == Or(Or(portfolio.mosttradedsector_std, portfolio.mostprofitablesector_std),
                  Str(std_sector_11(mentioned)))
    IN [mentioned |-> ToStr(mentioned), std |-> ToStr(std)]

(* A generator over the market returns its items (or raises) and the state *)
(* of the caller's table after it ran.                                     *)
Gen(result, table) == [raised |-> result.raised, items |-> result.items, market |-> table]

-----------------------------------------------------------------------------
(* Diversification suggestion (outside the user's normalized sector)       *)

(* candidates after the positive-mover filter (positive) and after the     *)
(* exclusion of the user's normalized sector (outside)                     *)
(* the user's sector is not excluded *)
DiversificationCandidates_no_exclusion(m, normalized_sector) ==
    LET positive ==
            IF "change_pct" \in m.columns
            THEN Filter(CoerceChange(m.rows),
                        LAMBDA r : r.change_pct.t = "num" /\ r.change_pct.n > 0)
            ELSE m.rows
    IN [positive |-> positive, outside |-> positive]

DiversificationCandidates(m, normalized_sector) ==
    LET positive ==
            IF "change_pct" \in m.columns
            THEN Filter(CoerceChange(m.rows),
                        LAMBDA r : r.change_pct.t = "num" /\ r.change_pct.n > 0)
            ELSE m.rows
    IN [positive |-> positive,
        outside |->
            IF "sector_std" \in m.columns /\ ~is_unknown(Str(normalized_sector))
            THEN Filter(positive, LAMBDA r : r.sector_std # Str(normalized_sector))
            ELSE positive]

DiversificationItem(m, labels, alt) ==
    IF is_unknown(Str(ToStr(alt.name))) THEN NoItem
    ELSE Items(<<Rec("diversification", PRIO_DIVERSIFICATION,
                [NoEvidence EXCEPT
                   !.alt_stock = Str(ToStr(alt.name)),
                   !.alt_sector_std =
                       IF "sector_std" \in m.columns
                       THEN Str(ToStr(alt.sector_std)) ELSE Str("Unknown"),
                   !.user_sector_mentioned = Str(labels.mentioned),
                   !.user_sector_std = Str(labels.std),
                   !.change_pct = alt.change_pct])>>)

DiversificationPick(m, labels, candidates, ties) ==
    IF candidates.positive = << >> \/ candidates.outside = << >> THEN NoItem
    ELSE IF "change_pct" \notin m.columns
         THEN Raises   \* sort_values("change_pct"): KeyError
    ELSE DiversificationItem(m, labels, sort_values(candidates.outside, FALSE, ties)[1])

DiversificationOn(e, labels, ties) ==
    Gen(DiversificationPick(e.df, labels,
                            DiversificationCandidates(e.df, labels.std), ties), e.arg)

suggest_diversification(portfolio, market, ties) ==
    IF Empty(market) \/ "name" \notin market.columns THEN Gen(NoItem, market)
    ELSE DiversificationOn(ensure_market_sector_std(market),
                           get_user_sector_labels(portfolio), ties)

-----------------------------------------------------------------------------
(* Within-profitable-sector idea                                           *)

suggest_within_profitable_sector(portfolio, market, ties) ==
    LET prof_std == portfolio.mostprofitablesector_std
        e == ensure_market_sector_std(market)
        m == e.df
        inSector == Filter(m.rows, LAMBDA r : r.sector_std = prof_std)
        df == sort_values(Filter(CoerceChange(inSector),
                                 LAMBDA r : r.change_pct.t = "num"), FALSE, ties)
        r == df[1]
    IN IF is_unknown(prof_std) THEN Gen(NoItem, market)
       ELSE IF "sector_std" \notin m.columns
            THEN Gen(Raises, e.arg)   \* m.get("sector_std") is None: m[False], KeyError
       ELSE IF "change_pct" \notin m.columns \/ inSector = << >> THEN Gen(NoItem, e.arg)
       ELSE IF df = << >> THEN Gen(NoItem, e.arg)
       ELSE IF "name" \notin m.columns
            THEN Gen(Raises, e.arg)   \* r['name']: KeyError
       ELSE Gen(Items(<<Rec("within_profitable_sector", PRIO_WITHIN_PROFITABLE,
                [NoEvidence EXCEPT
                   !.stock = r.name,
                   !.sector_std = prof_std,
                   !.change_pct = r.change_pct])>>), e.arg)

-----------------------------------------------------------------------------
(* Within-primary-sector idea                                              *)

(* the strongest mover of the sector, whatever its sign *)
suggest_within_primary_sector_any_change(portfolio, market, ties) ==
    LET primary_std == Or(Or(portfolio.mosttradedsector_std,
                             portfolio.mostprofitablesector_std), Str("Unknown"))
        e == ensure_market_sector_std(market)
        m == e.df
        inSector == Filter(m.rows, LAMBDA r : r.sector_std = primary_std)
        df == sort_values(Filter(CoerceChange(inSector),
                                 LAMBDA r : /\ r.change_pct.t = "num"
                                            /\ ~IsNa(r.name)), FALSE, ties)
        r == df[1]
    IN IF is_unknown(primary_std) THEN Gen(NoItem, market)
       ELSE IF Empty(m) \/ "sector_std" \notin m.columns THEN Gen(NoItem, e.arg)
       ELSE IF \/ inSector = << >>
               \/ "change_pct" \notin m.columns
               \/ "name" \notin m.columns THEN Gen(NoItem, e.arg)
       ELSE IF df = << >> THEN Gen(NoItem, e.arg)
       ELSE Gen(Items(<<Rec("within_primary_sector", PRIO_WITHIN_PRIMARY,
                [NoEvidence EXCEPT
                   !.stock = r.name,
                   !.sector_std = primary_std,
                   !.change_pct = r.change_pct])>>), e.arg)

suggest_within_primary_sector(portfolio, market, ties) ==
    LET primary_std == Or(Or(portfolio.mosttradedsector_std,
                             portfolio.mostprofitablesector_std), Str("Unknown"))
        e == ensure_market_sector_std(market)
        m == e.df
        inSector == Filter(m.rows, LAMBDA r : r.sector_std = primary_std)
        df == sort_values(Filter(CoerceChange(inSector),
                                 LAMBDA r : /\ r.change_pct.t = "num"
                                            /\ ~IsNa(r.name)
                                            /\ r.change_pct.n > 0), FALSE, ties)
        r == df[1]
    IN IF is_unknown(primary_std) THEN Gen(NoItem, market)
       ELSE IF Empty(m) \/ "sector_std" \notin m.columns THEN Gen(NoItem, e.arg)
       ELSE IF \/ inSector = << >>
               \/ "change_pct" \notin m.columns
               \/ "name" \notin m.columns THEN Gen(NoItem, e.arg)
       ELSE IF df = << >> THEN Gen(NoItem, e.arg)
       ELSE Gen(Items(<<Rec("within_primary_sector", PRIO_WITHIN_PRIMARY,
                [NoEvidence EXCEPT
                   !.stock = r.name,
                   !.sector_std = primary_std,
                   !.change_pct = r.change_pct])>>), e.arg)

-----------------------------------------------------------------------------
(* Movers split: opportunities vs alerts                                   *)

UP_THR == 2
DOWN_THR == 3
UP_LIMIT == 5
DOWN_LIMIT == 5

(* the thresholds are exclusive *)
highlight_movers_split_exclusive(market, exclude_names, ties) ==
    IF \/ Empty(market)
       \/ "change_pct" \notin market.columns
       \/ "name" \notin market.columns
    THEN Gen(NoItem, market)
    ELSE
    LET ex == {Lower(Strip(ToStr(exclude_names[i]))) :
                  i \in {k \in 1..Len(exclude_names) : ~is_unknown(exclude_names[k])}}
        df == Filter(CoerceChange(market.rows),
                     LAMBDA r : /\ r.change_pct.t = "num"
                                /\ ~IsNa(r.name)
                                /\ Lower(Strip(ToStr(r.name))) \notin ex)
        ups == Head_n(sort_values(Filter(df, LAMBDA r : r.change_pct.n > UP_THR),
                                  FALSE, ties), UP_LIMIT)
        downs == Head_n(sort_values(Filter(df, LAMBDA r : r.change_pct.n < -DOWN_THR),
                                    TRUE, ties), DOWN_LIMIT)
    IN Gen(Items(
           MapRows(ups, LAMBDA r : Rec("top_mover_up", PRIO_MOVER_UP,
               [NoEvidence EXCEPT !.stock = r.name, !.change_pct = r.change_pct]))
           \o
           MapRows(downs, LAMBDA r : Rec("watchlist_drop", PRIO_WATCHLIST_DROP,
               [NoEvidence EXCEPT !.stock = r.name, !.change_pct = r.change_pct]))),
           market)

(* only the gainers are scanned without the excluded names *)
highlight_movers_split_ups_only(market, exclude_names, ties) ==
    IF \/ Empty(market)
       \/ "change_pct" \notin market.columns
       \/ "name" \notin market.columns
    THEN Gen(NoItem, market)
    ELSE
    LET ex == {Lower(Strip(ToStr(exclude_names[i]))) :
                  i \in {k \in 1..Len(exclude_names) : ~is_unknown(exclude_names[k])}}
        all == Filter(CoerceChange(market.rows),
                      LAMBDA r : r.change_pct.t = "num" /\ ~IsNa(r.name))
        df == Filter(all, LAMBDA r : Lower(Strip(ToStr(r.name))) \notin ex)
        ups == Head_n(sort_values(Filter(df, LAMBDA r : r.change_pct.n >= UP_THR),
                                  FALSE, ties), UP_LIMIT)
        downs == Head_n(sort_values(Filter(all, LAMBDA r : r.change_pct.n <= -DOWN_THR),
                                    TRUE, ties), DOWN_LIMIT)
    IN Gen(Items(
           MapRows(ups, LAMBDA r : Rec("top_mover_up", PRIO_MOVER_UP,
               [NoEvidence EXCEPT !.stock = r.name, !.change_pct = r.change_pct]))
           \o
           MapRows(downs, LAMBDA r : Rec("watchlist_drop", PRIO_WATCHLIST_DROP,
               [NoEvidence EXCEPT !.stock = r.name, !.change_pct = r.change_pct]))),
           market)

highlight_movers_split(market, exclude_names, ties) ==
    IF \/ Empty(market)
       \/ "change_pct" \notin market.columns
       \/ "name" \notin market.columns
    THEN Gen(NoItem, market)
    ELSE
    LET ex == {Lower(Strip(ToStr(exclude_names[i]))) :
                  i \in {k \in 1..Len(exclude_names) : ~is_unknown(exclude_names[k])}}
        df == Filter(CoerceChange(market.rows),
                     LAMBDA r : /\ r.change_pct.t = "num"
                                /\ ~IsNa(r.name)
                                /\ Lower(Strip(ToStr(r.name))) \notin ex)
        ups == Head_n(sort_values(Filter(df, LAMBDA r : r.change_pct.n >= UP_THR),
                                  FALSE, ties), UP_LIMIT)
        downs == Head_n(sort_values(Filter(df, LAMBDA r : r.change_pct.n <= -DOWN_THR),
                                    TRUE, ties), DOWN_LIMIT)
    IN Gen(Items(
           MapRows(ups, LAMBDA r : Rec("top_mover_up", PRIO_MOVER_UP,
               [NoEvidence EXCEPT !.stock = r.name, !.change_pct = r.change_pct]))
           \o
           MapRows(downs, LAMBDA r : Rec("watchlist_drop", PRIO_WATCHLIST_DROP,
               [NoEvidence EXCEPT !.stock = r.name, !.change_pct = r.change_pct]))),
           market)

-----------------------------------------------------------------------------
(* Main API: the stages of generate_recommendations                        *)

DEGRADE_NUM == 7
DEGRADE_DEN == 10

(* asof = now, whatever market_asof is *)
ResolveAsof_now(market_asof, utcnow) == utcnow

(* asof = market_asof or now; is_stale = (now - asof) > timedelta(minutes) *)
ResolveAsof(market_asof, utcnow) == IF market_asof.t = "none" THEN utcnow ELSE market_asof.n

(* stale from the boundary on: >= instead of > *)
IsStale_inclusive(market_asof, utcnow, stale_after_minutes) ==
    utcnow - (IF market_asof.t = "none" THEN utcnow ELSE market_asof.n)
        >= stale_after_minutes

IsStale(market_asof, utcnow, stale_after_minutes) ==
    utcnow - ResolveAsof(market_asof, utcnow) > stale_after_minutes

(* "degrade" labels the items but leaves their priority *)
apply_freshness_label_only(recs, is_stale, freshness_policy) ==
    IF ~is_stale THEN recs
    ELSE MapRows(recs, LAMBDA r :
            IF freshness_policy \in {"degrade", "warn"} THEN [r EXCEPT !.stale = TRUE]
            ELSE r)

(* "warn" scales the priority as "degrade" does *)
apply_freshness_warn_scales(recs, is_stale, freshness_policy) ==
    IF ~is_stale THEN recs
    ELSE MapRows(recs, LAMBDA r :
            IF freshness_policy \in {"degrade", "warn"}
            THEN [r EXCEPT !.priority = (r.priority * DEGRADE_NUM) \div DEGRADE_DEN,
                           !.stale = TRUE]
            ELSE r)

apply_freshness(recs, is_stale, freshness_policy) ==
    IF ~is_stale THEN recs
    ELSE MapRows(recs, LAMBDA r :
            IF freshness_policy = "degrade"
            THEN [r EXCEPT !.priority = (r.priority * DEGRADE_NUM) \div DEGRADE_DEN,
                           !.stale = TRUE]
            ELSE IF freshness_policy = "warn" THEN [r EXCEPT !.stale = TRUE]
            ELSE r)

(* sorted without reverse=True *)
RECURSIVE sorted_ascending(_)
sorted_ascending(recs) ==
    IF recs = << >> THEN << >>
    ELSE LET first == CHOOSE i \in 1..Len(recs) :
                         \A j \in (1..Len(recs)) \ {i} :
                            \/ recs[i].priority < recs[j].priority
                            \/ (recs[i].priority = recs[j].priority /\ i < j)
             rest == [k \in 1..(Len(recs) - 1) |->
                         IF k < first THEN recs[k] ELSE recs[k + 1]]
         IN <<recs[first]>> \o sorted_ascending(rest)

(* descending, but items of equal priority come out in reverse input order *)
RECURSIVE sorted_ties_reversed(_)
sorted_ties_reversed(recs) ==
    IF recs = << >> THEN << >>
    ELSE LET first == CHOOSE i \in 1..Len(recs) :
                         \A j \in (1..Len(recs)) \ {i} :
                            \/ recs[i].priority > recs[j].priority
                            \/ (recs[i].priority = recs[j].priority /\ i > j)
             rest == [k \in 1..(Len(recs) - 1) |->
                         IF k < first THEN recs[k] ELSE recs[k + 1]]
         IN <<recs[first]>> \o sorted_ties_reversed(rest)

(* sorted(recs, key=priority, reverse=True): stable *)
RECURSIVE sorted_by_priority(_)
sorted_by_priority(recs) ==
    IF recs = << >> THEN << >>
    ELSE LET first == CHOOSE i \in 1..Len(recs) :
                         \A j \in (1..Len(recs)) \ {i} :
                            \/ recs[i].priority > recs[j].priority
                            \/ (recs[i].priority = recs[j].priority /\ i < j)
             rest == [k \in 1..(Len(recs) - 1) |->
                         IF k < first THEN recs[k] ELSE recs[k + 1]]
         IN <<recs[first]>> \o sorted_by_priority(rest)

(* the key compared without lower-casing *)
dedup_key_case_sensitive(r) ==
    Strip(ToStr(Or(Or(r.evidence.alt_stock, r.evidence.stock), Str(""))))

dedup_key(r) ==
    Lower(Strip(ToStr(Or(Or(r.evidence.alt_stock, r.evidence.stock), Str("")))))

(* the last item of a key is kept instead of the first *)
RECURSIVE dedupe_keep_last(_, _)
dedupe_keep_last(recs, seen) ==
    IF recs = << >> THEN << >>
    ELSE LET r == Head(recs)
             key == dedup_key(r)
             rest == Tail(recs)
         IN IF key # "" /\ \E i \in 1..Len(rest) : dedup_key(rest[i]) = key
            THEN dedupe_keep_last(rest, seen)
            ELSE <<r>> \o dedupe_keep_last(rest, seen)

RECURSIVE dedupe(_, _)
dedupe(recs, seen) ==
    IF recs = << >> THEN << >>
    ELSE LET r == Head(recs)
             key == dedup_key(r)
         IN IF key # "" /\ key \in seen THEN dedupe(Tail(recs), seen)
            ELSE <<r>> \o dedupe(Tail(recs), IF key # "" THEN seen \cup {key} ELSE seen)

(* recs[:max_items] for every integer, 0 and negatives included *)
truncate_any_int(recs, max_items) ==
    IF max_items.t = "num"
    THEN IF max_items.n >= 0 THEN Head_n(recs, max_items.n)
         ELSE SubSeq(recs, 1, Len(recs) + max_items.n)
    ELSE recs

(* isinstance(max_items, int) and max_items > 0 *)
truncate(recs, max_items) ==
    IF max_items.t = "num" /\ max_items.n > 0 THEN Head_n(recs, max_items.n) ELSE recs

Envelope(r, persona, asof, recs) ==
    [status |-> "ok",
     client_id |-> r.portfolio.clientid,
     risk_persona |-> persona.label,
     persona_confidence |-> persona.confidence,
     meta |-> [freshness_policy |-> r.freshness_policy,
               stale_after_minutes |-> r.stale_after_minutes,
               data_timestamp |-> asof,
               max_items |-> r.max_items],
     recommendations |-> recs]

Raised == [status |-> "raised"]
NoOutput == [status |-> "none"]

(* Lines 478-522: freshness, sort, dedup, cap, envelope *)
Aggregate(r, persona, utcnow, recs) ==
    Envelope(r, persona, ResolveAsof(r.market_asof, utcnow),
             truncate(dedupe(sorted_by_priority(
                 apply_freshness(recs,
                                 IsStale(r.market_asof, utcnow, r.stale_after_minutes),
                                 r.freshness_policy)), {}), r.max_items))

Exclude(portfolio) == <<portfolio.mosttradedsecurity, portfolio.mostprofitablesecurityname>>

(* Lines 452-476: the generators in invocation order.  Each returns its    *)
(* items (or raises) and the caller's table as it leaves it.               *)
NumStages == 6

RunStage(stage, portfolio, market, ties) ==
    CASE stage = 1 -> Gen(data_quality_checks(portfolio), market)
      [] stage = 2 -> Gen(check_sector_concentration(portfolio), market)
      [] stage = 3 -> suggest_diversification(portfolio, market, ties)
      [] stage = 4 -> suggest_within_profitable_sector(portfolio, market, ties)
      [] stage = 5 -> suggest_within_primary_sector(portfolio, market, ties)
      [] OTHER -> highlight_movers_split(market, Exclude(portfolio), ties)

(* recs.extend / recs.append of a generator's result *)
Extend(acc, g) ==
    [raised |-> g.raised, items |-> acc.items \o g.items, market |-> g.market]

RECURSIVE Collect(_, _, _, _)
Collect(stage, portfolio, acc, ties) ==
    IF stage > NumStages \/ acc.raised THEN acc
    ELSE Collect(stage + 1, portfolio,
                 Extend(acc, RunStage(stage, portfolio, acc.market, ties)), ties)

Returned(r, utcnow, collected) ==
    IF collected.raised THEN [result |-> Raised, market |-> collected.market]
    ELSE [result |-> Aggregate(r, infer_risk_persona(r.portfolio), utcnow, collected.items),
          market |-> collected.market]

(* The whole call on table `market` at instant utcnow: the value returned  *)
(* (or Raised) and the caller's table afterwards.                          *)
generate_recommendations(r, market, utcnow, ties) ==
    IF PersonaRaises(r.portfolio) THEN [result |-> Raised, market |-> market]
    ELSE Returned(r, utcnow, Collect(1, r.portfolio, Gen(NoItem, market), ties))

-----------------------------------------------------------------------------
(* Inputs                                                                  *)

MaxRows == 3
MaxNow == 2
MaxCap == 2
StaleAfter == 1

Threads == {1, 2}

BlankPortfolio ==
    [clientid |-> Str("C1"),
     mosttradedsector |-> None, mostprofitablesector |-> None,
     mosttradedsector_std |-> None, mostprofitablesector_std |-> None,
     tradesvolumeofmosttradedsector |-> None, totaltradesvolumein24 |-> None,
     mosttradedsecurity |-> None, mostprofitablesecurityname |-> None,
     interval_start |-> None, interval_end |-> None,
     numberoftradesinmosttradedsector |-> None,
     daysasclient |-> None, totaltradesin24 |-> None, durationheld |-> None]

WithSectors(p, mts, mps, mts_std, mps_std) ==
    [p EXCEPT !.mosttradedsector = mts, !.mostprofitablesector = mps,
              !.mosttradedsector_std = mts_std, !.mostprofitablesector_std = mps_std]

WithVolumes(p, sector_vol, total_vol, sector_trades) ==
    [p EXCEPT !.tradesvolumeofmosttradedsector = sector_vol,
              !.totaltradesvolumein24 = total_vol,
              !.numberoftradesinmosttradedsector = sector_trades]

WithActivity(p, days, trades, hold) ==
    [p EXCEPT !.daysasclient = days, !.totaltradesin24 = trades, !.durationheld = hold]

(* Free-text sectors only, as the portfolio loader gives them; 70% of the  *)
(* volume in the most-traded sector.                                       *)
ClientA ==
    WithActivity(WithVolumes(
        WithSectors([BlankPortfolio EXCEPT !.clientid = Str("A")],
                    Str("Food"), Str("Energy"), None, None),
        Num(700), Num(1000), Num(3)), Num(400), Num(50), Num(30))

(* Pre-normalized sectors, and a most-traded security to keep out of the   *)
(* movers.                                                                 *)
ClientB ==
    WithActivity(WithVolumes(
        WithSectors([BlankPortfolio EXCEPT !.clientid = Str("B"),
                                           !.mosttradedsecurity = Str("abc")],
                    Str("Food"), Str("Energy"), Str("Consumer Staples"), Str("Energy")),
        Num(700), Num(1000), Num(3)), Num(1200), Num(2), Num(200))

(* Most-traded sector unknown although sector volume exists.               *)
ClientC ==
    WithVolumes(
        WithSectors([BlankPortfolio EXCEPT !.clientid = Str("C")],
                    Str("Unknown"), None, None, Str("Energy")),
        Num(700), Num(1000), Num(3))

PortfoliosMain == {ClientA, ClientB, ClientC, BlankPortfolio}

MarketRow(name, change_pct, sector) ==
    [name |-> name, change_pct |-> change_pct, sector |-> sector, sector_std |-> None]

(* rows of distinct display names; "XYZ" and " xyz" share one dedup key     *)
RowPool ==
    << MarketRow(Str("XYZ"), Num(5), Str("Energy")),
       MarketRow(Str(" xyz"), Num(5), Str("food ")),
       MarketRow(Str("ABC"), Num(2), Str("Banking")),
       MarketRow(Str("DEF"), Num(-3), Str("Energy")),
       MarketRow(NaN, Num(6), Str("Crypto")) >>

RECURSIVE RowsAt(_, _)
RowsAt(pool, idx) ==
    IF idx = {} THEN << >>
    ELSE LET i == CHOOSE k \in idx : \A j \in idx : k <= j
         IN <<pool[i]>> \o RowsAt(pool, idx \ {i})

(* the tables of at most MaxRows rows of the pool, in pool order *)
Tables(pool, columns) ==
    { [columns |-> columns,
       rows |-> MapRows(RowsAt(pool, idx), LAMBDA r :
                   [name |-> IF "name" \in columns THEN r.name ELSE None,
                    change_pct |-> IF "change_pct" \in columns THEN r.change_pct ELSE None,
                    sector |-> IF "sector" \in columns THEN r.sector ELSE None,
                    sector_std |-> None])]
      : idx \in {x \in SUBSET (1..Len(pool)) : Cardinality(x) <= MaxRows} }

AllColumns == {"name", "change_pct", "sector"}

MarketsMain == Tables(RowPool, AllColumns)

CapPool == {None, Num(0), Num(-1)} \cup {Num(k) : k \in 1..MaxCap}
PolicyPool == {"degrade", "warn", "off"}
AsofPool == {None, Num(0)}

Request(portfolio, max_items, freshness_policy, stale_after_minutes, market_asof) ==
    [portfolio |-> portfolio, max_items |-> max_items,
     freshness_policy |-> freshness_policy,
     stale_after_minutes |-> stale_after_minutes, market_asof |-> market_asof]

RequestsMain ==
    { Request(p, k, f, StaleAfter, a) :
        p \in PortfoliosMain, k \in CapPool, f \in PolicyPool, a \in AsofPool }

NoRequest == Request(BlankPortfolio, None, "none", 0, None)

HasTies(m) ==
    \E i, j \in 1..Len(m.rows) :
        i < j /\ ToNumeric(m.rows[i].change_pct) = ToNumeric(m.rows[j].change_pct)
              /\ ToNumeric(m.rows[i].change_pct).t = "num"

-----------------------------------------------------------------------------
(* State machine                                                           *)

NoFrame == [now |-> 0, stage |-> 0, recs |-> << >>]

(* requestPairs: the requests of thread 1 and thread 2 *)
InitWith(markets, requestPairs) ==
    /\ market_df \in markets
    /\ market_df0 = market_df
    /\ now = 0
    /\ sortTies \in {"first", "last"}
    /\ (sortTies = "last" => HasTies(market_df))
    /\ \E rr \in requestPairs : req = (1 :> rr[1]) @@ (2 :> rr[2])
    /\ pc = [t \in Threads |-> "idle"]
    /\ frame = [t \in Threads |-> NoFrame]
    /\ out = [t \in Threads |-> NoOutput]

(* The clock advances. *)
Tick ==
    /\ now < MaxNow
    /\ now' = now + 1
    /\ UNCHANGED <<market_df, market_df0, sortTies, req, pc, frame, out>>

(* Thread t runs generate_recommendations on its request, start to end. *)
Invoke(t) ==
    /\ req[t] # NoRequest
    /\ pc[t] = "idle"
    /\ \E call \in {generate_recommendations(req[t], market_df, now, sortTies)} :
          /\ out' = [out EXCEPT ![t] = call.result]
          /\ market_df' = call.market
    /\ frame' = [frame EXCEPT ![t] = [NoFrame EXCEPT !.now = now]]
    /\ UNCHANGED <<market_df0, now, sortTies, req, pc>>

(* The same call in the steps at which it reads the shared table, for the  *)
(* interleavings of two threads.                                           *)

(* Lines 443-451: persona, now = utcnow(), recs = [] *)
Begin(t) ==
    /\ req[t] # NoRequest
    /\ pc[t] = "idle"
    /\ frame' = [frame EXCEPT ![t] = [now |-> now, stage |-> 1, recs |-> << >>]]
    /\ IF PersonaRaises(req[t].portfolio)
       THEN /\ out' = [out EXCEPT ![t] = Raised]
            /\ pc' = pc
       ELSE /\ out' = [out EXCEPT ![t] = NoOutput]
            /\ pc' = [pc EXCEPT ![t] = "run"]
    /\ UNCHANGED <<market_df, market_df0, now, sortTies, req>>

(* Lines 452-476: the next generator runs on the shared table *)
Generate(t) ==
    /\ pc[t] = "run"
    /\ \E g \in {RunStage(frame[t].stage, req[t].portfolio, market_df, sortTies)} :
          /\ market_df' = g.market
          /\ IF g.raised
             THEN /\ out' = [out EXCEPT ![t] = Raised]
                  /\ pc' = [pc EXCEPT ![t] = "idle"]
                  /\ frame' = frame
             ELSE /\ out' = out
                  /\ pc' = [pc EXCEPT ![t] =
                               IF frame[t].stage = NumStages THEN "agg" ELSE "run"]
                  /\ frame' = [frame EXCEPT ![t].stage = @ + 1,
                                            ![t].recs = @ \o g.items]
    /\ UNCHANGED <<market_df0, now, sortTies, req>>

(* Lines 478-522: freshness, sort, dedup, cap, return *)
Finish(t) ==
    /\ pc[t] = "agg"
    /\ out' = [out EXCEPT ![t] =
                  Aggregate(req[t], infer_risk_persona(req[t].portfolio),
                            frame[t].now, frame[t].recs)]
    /\ pc' = [pc EXCEPT ![t] = "idle"]
    /\ UNCHANGED <<market_df, market_df0, now, sortTies, req, frame>>

-----------------------------------------------------------------------------
(* Specifications                                                          *)

(* One client, every configuration, whole calls. *)
Init == InitWith(MarketsMain, {<<r, NoRequest>> : r \in RequestsMain})

Next == Tick \/ \E t \in Threads : Invoke(t)

Spec == Init /\ [][Next]_vars

(* The same request invoked by two threads at any two instants. *)
TwicePool == <<RowPool[1], RowPool[3], RowPool[4]>>

RequestsTwice ==
    { Request(p, None, f, StaleAfter, a) :
        p \in {ClientB, ClientC}, f \in PolicyPool, a \in AsofPool }

InitTwice == InitWith(Tables(TwicePool, AllColumns), {<<r, r>> : r \in RequestsTwice})

SpecTwice == InitTwice /\ [][Next]_vars

(* Malformed market tables and invalid numeric portfolio fields. *)
ErrPool ==
    << MarketRow(Str("XYZ"), Num(5), Str("Energy")),
       MarketRow(Str("GHI"), Str("n/a"), Str("Food")),
       MarketRow(Str("DEF"), Num(-3), Str("Energy")) >>

MarketsErr == UNION { Tables(ErrPool, columns) : columns \in SUBSET AllColumns }

PortfoliosErr ==
    { ClientA, ClientB, BlankPortfolio,
      [ClientA EXCEPT !.daysasclient = NaN],
      [ClientA EXCEPT !.durationheld = Str("n/a")],
      [ClientA EXCEPT !.totaltradesin24 = Str("12")],
      [ClientA EXCEPT !.tradesvolumeofmosttradedsector = Str("n/a")],
      [ClientA EXCEPT !.totaltradesvolumein24 = NaN],
      [ClientA EXCEPT !.numberoftradesinmosttradedsector = NaN] }

InitErr ==
    InitWith(MarketsErr,
             {<<Request(p, None, "degrade", StaleAfter, None), NoRequest>> :
                 p \in PortfoliosErr})

SpecErr == InitErr /\ [][Next]_vars

(* Two clients served concurrently from one market table. *)
ConcPool == <<RowPool[1], RowPool[2], RowPool[4]>>

InitConc ==
    InitWith(Tables(ConcPool, AllColumns) \cup Tables(ConcPool, {"name", "change_pct"}),
             {<<Request(p, None, "degrade", StaleAfter, Num(0)),
                Request(q, Num(1), "warn", StaleAfter, None)>> :
                 p \in {ClientA, ClientB}, q \in {ClientB, ClientC}})

NextConc == Tick \/ \E t \in Threads : Begin(t) \/ Generate(t) \/ Finish(t)

SpecConc == InitConc /\ [][NextConc]_vars

-----------------------------------------------------------------------------
(* Properties                                                              *)

Done(t) == out[t].status = "ok"
Recs(t) == out[t].recommendations

(* The items the generators returned to the call of thread t, in           *)
(* invocation order, before the freshness policy, sort, dedup and cap.     *)
Generated(t) ==
    Collect(1, req[t].portfolio, Gen(NoItem, market_df0), sortTies).items

(* The elapsed time of thread t's call strictly exceeds the window. *)
Elapsed(t) ==
    IF req[t].market_asof = None THEN 0 ELSE frame[t].now - req[t].market_asof.n

StaleCall(t) == Elapsed(t) > req[t].stale_after_minutes

(* The same call under another freshness policy / at another instant. *)
RunWithPolicy(t, policy) ==
    generate_recommendations([req[t] EXCEPT !.freshness_policy = policy],
                             market_df0, frame[t].now, sortTies).result

RunAt(t, instant) ==
    generate_recommendations(req[t], market_df0, instant, sortTies).result

(* The security key of an item as the claims word it. *)
SecurityKey(r) ==
    Lower(Strip(ToStr(
        IF r.evidence.alt_stock # None THEN r.evidence.alt_stock
        ELSE IF r.evidence.stock # None THEN r.evidence.stock
        ELSE Str(""))))

NonIncreasing(recs) ==
    \A i \in 1..(Len(recs) - 1) : recs[i].priority >= recs[i + 1].priority

(* C1: the returned list holds no two items with the same non-empty        *)
(* security key (trimmed, lower-cased alt_stock, else stock, else "").     *)
C1_DedupUnique ==
    \A t \in Threads : Done(t) =>
        \A i, j \in 1..Len(Recs(t)) :
            (i < j /\ SecurityKey(Recs(t)[i]) # "")
                => SecurityKey(Recs(t)[i]) # SecurityKey(Recs(t)[j])

(* two generated items named the same security under different display    *)
(* names, and only one of them was returned                                *)
C1_Witness ==
    \E t \in Threads :
        /\ Done(t)
        /\ req[t].max_items = None
        /\ \E i, j \in 1..Len(Generated(t)) :
              /\ i < j
              /\ SecurityKey(Generated(t)[i]) # ""
              /\ SecurityKey(Generated(t)[i]) = SecurityKey(Generated(t)[j])
              /\ Generated(t)[i].evidence.stock # Generated(t)[j].evidence.stock
              /\ Cardinality({k \in 1..Len(Recs(t)) :
                    SecurityKey(Recs(t)[k]) = SecurityKey(Generated(t)[i])}) = 1

(* C2: under every freshness policy the returned list is non-increasing in *)
(* priority from first to last item.                                       *)
C2_SortedByPriority == \A t \in Threads : Done(t) => NonIncreasing(Recs(t))

(* a stale, degraded, capped call whose generated list was not in order    *)
C2_Witness ==
    \E t \in Threads :
        /\ Done(t)
        /\ StaleCall(t) /\ req[t].freshness_policy = "degrade"
        /\ req[t].max_items = Num(2)
        /\ Len(Recs(t)) = 2
        /\ Recs(t)[1].priority > Recs(t)[2].priority
        /\ ~NonIncreasing(Generated(t))

(* The sorted, deduplicated list of thread t's call before the cap. *)
Deduplicated(t) ==
    dedupe(sorted_by_priority(
        apply_freshness(Generated(t), StaleCall(t), req[t].freshness_policy)), {})

(* C3: a positive integer max_items keeps exactly the first max_items      *)
(* items of the deduplicated sorted list; None, 0 or a negative max_items  *)
(* removes nothing.                                                        *)
C3_CapRespected ==
    \A t \in Threads : Done(t) =>
        IF req[t].max_items # None /\ req[t].max_items.n > 0
        THEN /\ Len(Recs(t)) <= req[t].max_items.n
             /\ Recs(t) = SubSeq(Deduplicated(t), 1, Len(Recs(t)))
             /\ (Len(Recs(t)) < req[t].max_items.n => Recs(t) = Deduplicated(t))
        ELSE Recs(t) = Deduplicated(t)

(* a cap of 1 that cut a longer list *)
C3_Witness ==
    \E t \in Threads :
        /\ Done(t)
        /\ req[t].max_items = Num(1)
        /\ Len(Deduplicated(t)) >= 3
        /\ Len(Recs(t)) = 1

(* C4: on stale data, "degrade" returns the items of the "off" run in the  *)
(* same order, each with stale = true and 0.7 times its "off" priority.    *)
C4_DegradeScales ==
    \A t \in Threads :
        (Done(t) /\ StaleCall(t) /\ req[t].freshness_policy = "degrade") =>
            LET off == RunWithPolicy(t, "off").recommendations
            IN /\ Len(Recs(t)) = Len(off)
               /\ \A i \in 1..Len(off) :
                     /\ Recs(t)[i].stale
                     /\ ~off[i].stale
                     /\ 10 * Recs(t)[i].priority = 7 * off[i].priority
                     /\ Recs(t)[i].priority < off[i].priority
                     /\ Recs(t)[i].type = off[i].type
                     /\ Recs(t)[i].evidence = off[i].evidence

(* a stale degraded call that returned items of several priorities *)
C4_Witness ==
    \E t \in Threads :
        /\ Done(t) /\ StaleCall(t) /\ req[t].freshness_policy = "degrade"
        /\ Len(Recs(t)) >= 3
        /\ Recs(t)[1].priority # Recs(t)[Len(Recs(t))].priority

(* C5: on stale data, "warn" sets stale = true on every item and leaves    *)
(* the priorities of the non-stale run; "off" returns what a non-stale run *)
(* returns.                                                                *)
C5_WarnAndOff ==
    \A t \in Threads :
        (Done(t) /\ StaleCall(t)) =>
            LET fresh == RunAt(t, req[t].market_asof.n)
            IN /\ req[t].freshness_policy = "warn" =>
                    /\ Len(Recs(t)) = Len(fresh.recommendations)
                    /\ \A i \in 1..Len(Recs(t)) :
                          /\ Recs(t)[i].stale
                          /\ ~fresh.recommendations[i].stale
                          /\ Recs(t)[i] = [fresh.recommendations[i] EXCEPT !.stale = TRUE]
               /\ req[t].freshness_policy = "off" =>
                    /\ out[t] = fresh
                    /\ \A i \in 1..Len(Recs(t)) : ~Recs(t)[i].stale

(* a stale call under "warn" that returned items *)
C5_Witness ==
    \E t \in Threads :
        /\ Done(t) /\ StaleCall(t) /\ req[t].freshness_policy = "warn"
        /\ Len(Recs(t)) >= 3

(* C6: the policy is applied exactly when now - market_asof is strictly    *)
(* more than the window: at or below it, or with market_asof omitted, no   *)
(* item is stale and the list is that of the "off" run; above it, every    *)
(* item of a "warn" or "degrade" run is stale.                             *)
C6_StaleOnlyBeyondWindow ==
    \A t \in Threads : Done(t) =>
        IF req[t].market_asof = None
           \/ frame[t].now - req[t].market_asof.n <= req[t].stale_after_minutes
        THEN /\ \A i \in 1..Len(Recs(t)) : ~Recs(t)[i].stale
             /\ Recs(t) = RunWithPolicy(t, "off").recommendations
        ELSE req[t].freshness_policy \in {"warn", "degrade"} =>
                \A i \in 1..Len(Recs(t)) : Recs(t)[i].stale

(* a "degrade" call made exactly stale_after_minutes after market_asof *)
C6_Witness ==
    \E t \in Threads :
        /\ Done(t)
        /\ req[t].market_asof # None
        /\ frame[t].now - req[t].market_asof.n = req[t].stale_after_minutes
        /\ req[t].freshness_policy = "degrade"
        /\ Len(Recs(t)) >= 2

Called(t) == out[t].status # "none"

(* C7 as claimed: for a fixed request, table and market_asof, any two      *)
(* invocations, at any two instants, return identical output.              *)
C7_AnyTwoInvocationsAgree ==
    (req[1] = req[2] /\ Done(1) /\ Done(2)) => out[1] = out[2]

(* C7 as amended: two invocations of one request return identical output   *)
(* when market_asof is supplied and both instants are on the same side of  *)
(* the staleness window, or the policy is "off"; when market_asof is       *)
(* omitted they differ in meta.data_timestamp alone, which is the instant  *)
(* of each call.                                                           *)
C7_AgreeOnSameSideOfWindow ==
    (req[1] = req[2] /\ Done(1) /\ Done(2)) =>
        IF req[1].market_asof # None
        THEN ((StaleCall(1) <=> StaleCall(2)) \/ req[1].freshness_policy = "off")
                => out[1] = out[2]
        ELSE /\ out[1].meta.data_timestamp = frame[1].now
             /\ out[2].meta.data_timestamp = frame[2].now
             /\ out[1] = [out[2] EXCEPT !.meta.data_timestamp = frame[1].now]

(* two invocations of one request at different instants inside the window *)
C7_Witness ==
    /\ req[1] = req[2] /\ Done(1) /\ Done(2)
    /\ req[1].market_asof # None
    /\ frame[1].now # frame[2].now
    /\ ~StaleCall(1) /\ ~StaleCall(2)
    /\ req[1].freshness_policy = "degrade"
    /\ Len(Recs(1)) >= 2

NumericFields(p) ==
    {p.daysasclient, p.totaltradesin24, p.durationheld,
     p.tradesvolumeofmosttradedsector, p.totaltradesvolumein24,
     p.numberoftradesinmosttradedsector}

ValidNumbers(p) == \A v \in NumericFields(p) : v.t \in {"none", "num"}

(* empty, a column missing, or no row with a parseable change_pct *)
Malformed(m) ==
    \/ Len(m.rows) = 0
    \/ m.columns # AllColumns
    \/ \A i \in 1..Len(m.rows) : ToNumeric(m.rows[i].change_pct).t # "num"

(* C8: with an empty market table, one that lacks the name, change_pct or  *)
(* sector column, or one whose rows are all filtered out, the call returns *)
(* an envelope without raising, for every portfolio (here: every portfolio *)
(* whose numeric fields are valid).                                        *)
C8_MalformedMarketNeverRaises ==
    \A t \in Threads :
        (Called(t) /\ Malformed(market_df0) /\ ValidNumbers(req[t].portfolio))
            => out[t].status = "ok"

(* C9: a missing or invalid value of a numeric portfolio field never makes *)
(* the call raise (here: on a well-formed market table).                   *)
C9_InvalidNumberNeverRaises ==
    \A t \in Threads :
        (Called(t) /\ ~Malformed(market_df0)) => out[t].status = "ok"

(* C10: calls for different clients that share one market table, in any    *)
(* interleaving, leave the table as it was and each return what the call   *)
(* returns when run alone on that table.                                   *)
C10_SharedTableUntouched ==
    /\ market_df = market_df0
    /\ \A t \in Threads :
          (pc[t] = "idle" /\ Called(t)) => out[t] = RunAt(t, frame[t].now)

(* thread 1 began and returned while the call of thread 2, for another     *)
(* client, was between two generators                                      *)
C10_Witness ==
    /\ pc[1] = "idle" /\ Done(1) /\ Len(Recs(1)) >= 1
    /\ pc[2] = "run" /\ frame[2].stage >= 4
    /\ frame[2].now < frame[1].now
    /\ req[1].portfolio.clientid # req[2].portfolio.clientid
    /\ "sector" \in market_df.columns

-----------------------------------------------------------------------------
(* Persona inference over tenure, activity and holding duration            *)

DaysPool == {None} \cup {Num(k) : k \in {0, 30, 45, 60, 364, 365, 999, 1000, 1200}}
TradesPool == {None} \cup {Num(k) : k \in {0, 1, 2, 3, 4, 6, 8, 66, 67, 80, 160}}
HoldPool == {None} \cup {Num(k) : k \in {0, 45, 46, 90, 91, 200}}

PortfoliosPersona ==
    { WithActivity(BlankPortfolio, d, n, h) :
        d \in DaysPool, n \in TradesPool, h \in HoldPool }

InitPersona ==
    InitWith(Tables(<<RowPool[3]>>, AllColumns),
             {<<Request(p, None, "degrade", StaleAfter, None), NoRequest>> :
                 p \in PortfoliosPersona})

SpecPersona == InitPersona /\ [][Next]_vars

(* a field that is absent counts as 0 *)
Given(v) == IF v = None THEN 0 ELSE v.n

Tenure(t) == Given(req[t].portfolio.daysasclient)
Trades(t) == Given(req[t].portfolio.totaltradesin24)
Hold(t) == Given(req[t].portfolio.durationheld)

(* tpm >= k, where months = max(1, tenure_days / 30) and tpm = trades_24 / months, *)
(* cleared of its fractions                                                        *)
TradesPerMonthAtLeast(k, tenure_days, trades_24) ==
    30 * trades_24 >= k * (IF tenure_days >= 30 THEN tenure_days ELSE 30)

PersonaScore(tenure_days, trades_24, avg_hold) ==
      (IF TradesPerMonthAtLeast(4, tenure_days, trades_24) THEN 2
       ELSE IF TradesPerMonthAtLeast(2, tenure_days, trades_24) THEN 1 ELSE 0)
    + (IF avg_hold <= 45 THEN 2 ELSE IF avg_hold <= 90 THEN 1 ELSE 0)
    - (IF tenure_days >= 1000 THEN 2 ELSE IF tenure_days >= 365 THEN 1 ELSE 0)

(* C11: for non-negative integer tenure, trades and holding duration the   *)
(* returned persona is Aggressive 0.75 when the score is >= 2,             *)
(* Conservative 0.70 when it is <= -1 and Balanced 0.65 otherwise, the     *)
(* score being activity (2, 1, 0) + holding (2, 1, 0) - tenure (2, 1, 0).  *)
C11_PersonaByScore ==
    \A t \in Threads : Done(t) =>
        LET score == PersonaScore(Tenure(t), Trades(t), Hold(t))
        IN /\ score >= 2 =>
                out[t].risk_persona = "Aggressive" /\ out[t].persona_confidence = 75
           /\ score <= -1 =>
                out[t].risk_persona = "Conservative" /\ out[t].persona_confidence = 70
           /\ (score < 2 /\ score > -1) =>
                out[t].risk_persona = "Balanced" /\ out[t].persona_confidence = 65

(* tenure 1200, trades 2, hold 200 gives Conservative 0.70 *)
C11_Witness ==
    /\ Done(1)
    /\ Tenure(1) = 1200 /\ Trades(1) = 2 /\ Hold(1) = 200
    /\ out[1].risk_persona = "Conservative" /\ out[1].persona_confidence = 70

(* C16: when daysasclient, totaltradesin24 and durationheld are all        *)
(* absent, the returned persona is Balanced or Conservative, never         *)
(* Aggressive.                                                             *)
C16_AbsentActivityNotAggressive ==
    \A t \in Threads :
        (/\ Done(t)
         /\ req[t].portfolio.daysasclient = None
         /\ req[t].portfolio.totaltradesin24 = None
         /\ req[t].portfolio.durationheld = None)
            => out[t].risk_persona \in {"Balanced", "Conservative"}

-----------------------------------------------------------------------------
(* Sector labels: free text, pre-normalized, unrecognised and missing      *)

SectorPool ==
    << MarketRow(Str("XYZ"), Num(5), Str("Energy")),
       MarketRow(Str("FOO"), Num(4), Str("food ")),
       MarketRow(Str("CRY"), Num(6), Str("Crypto")),
       MarketRow(Str("NAS"), Num(3), NaN),
       MarketRow(Str("HCA"), Num(2), Str("Health  Care")) >>

PortfoliosSector ==
    { ClientA, ClientB, BlankPortfolio,
      WithSectors(BlankPortfolio, Str("Crypto"), None, None, None),
      WithSectors(BlankPortfolio, NaN, Str(" banking"), None, None),
      WithSectors(BlankPortfolio, None, Str("Energy"), None, None),
      WithSectors(ClientB, Str("Food"), Str("Energy"), Str("food"), Str("Energy")),
      WithSectors(BlankPortfolio, Str("Food"), Str("Energy"), None, Str("Energy")),
      WithSectors(BlankPortfolio, None, Str("Food"), Str("Energy"), None),
      WithSectors(BlankPortfolio, None, None, Str(""), Str("energy ")) }

InitSector ==
    InitWith(Tables(SectorPool, AllColumns) \cup Tables(SectorPool, {"name", "change_pct"}),
             {<<Request(p, None, "degrade", StaleAfter, None), NoRequest>> :
                 p \in PortfoliosSector})

SpecSector == InitSector /\ [][Next]_vars

(* the bucket names of the normalisation table *)
Buckets ==
    {"Financials", "Materials", "Industrials", "Consumer Discretionary",
     "Consumer Staples", "Energy", "Healthcare", "Technology", "Real Estate",
     "Telecommunications"}

IsBucket(v) == v.t = "str" /\ v.s \in Buckets \cup {"Unknown"}

(* the normalized sectors an item reports *)
ReportedSectors(r) ==
    {r.evidence.sector_std, r.evidence.user_sector_std, r.evidence.alt_sector_std}
        \ {None}

(* the pre-normalized sectors the portfolio supplies *)
SuppliedStd(p) ==
    {v \in {p.mosttradedsector_std, p.mostprofitablesector_std} : Truthy(v)}

MarketSectorsAreBuckets ==
    "sector" \in market_df0.columns =>
        \A i \in 1..Len(market_df0.rows) :
            IsBucket(ensure_market_sector_std(market_df0).df.rows[i].sector_std)

-----------------------------------------------------------------------------
(* Market rows with a missing name or an unparseable change_pct            *)

(* the row has a name and a change_pct that parses as a number *)
WellFormedRow(row) == ~IsNa(row.name) /\ ToNumeric(row.change_pct).t = "num"

(* the item names the security of this row *)
Names(r, row) ==
    \/ r.evidence.alt_stock = Str(ToStr(row.name))
    \/ r.evidence.stock = row.name

NamesNoSecurity(r) == r.evidence.alt_stock = None /\ r.evidence.stock = None

(* C13: a market row whose name is missing or whose change_pct does not    *)
(* parse is never surfaced as a recommendation and never makes a call on a *)
(* non-empty table fail: every returned item that names a security names a row that has a  *)
(* name and a numeric change_pct.                                          *)
C13_MalformedRowsNeverSurface ==
    \A t \in Threads :
        /\ (Called(t) /\ market_df0.rows # << >>) => Done(t)
        /\ Done(t) =>
              \A i \in 1..Len(Recs(t)) :
                  \/ NamesNoSecurity(Recs(t)[i])
                  \/ \E k \in 1..Len(market_df0.rows) :
                        /\ WellFormedRow(market_df0.rows[k])
                        /\ Names(Recs(t)[i], market_df0.rows[k])

-----------------------------------------------------------------------------
(* Which items survive de-duplication                                      *)

(* the same item, whatever the freshness policy did to it *)
SameItem(a, g) == a.type = g.type /\ a.evidence = g.evidence

Uncapped(t) == ~(req[t].max_items.t = "num" /\ req[t].max_items.n > 0)

(* among the generated items that share its key, item i has the highest    *)
(* priority, and was generated first among those of that priority          *)
WinsKey(G, i) ==
    \A j \in (1..Len(G)) \ {i} :
        SecurityKey(G[j]) = SecurityKey(G[i]) =>
            \/ G[i].priority > G[j].priority
            \/ (G[i].priority = G[j].priority /\ i < j)

Survives(G, i) == SecurityKey(G[i]) = "" \/ WinsKey(G, i)

(* R holds exactly the items of G that survive *)
ExactlySurvivors(G, R) ==
    /\ \A i \in 1..Len(G) :
          (\E k \in 1..Len(R) : SameItem(R[k], G[i])) <=> Survives(G, i)
    /\ Len(R) = Cardinality({i \in 1..Len(G) : Survives(G, i)})

(* C14: of the generated items that share a non-empty security key exactly *)
(* the one with the highest priority survives de-duplication (the one      *)
(* generated first on equal priority), and every item with an empty key    *)
(* survives.                                                               *)
C14_HighestPrioritySurvives ==
    \A t \in Threads :
        (Done(t) /\ Uncapped(t)) => ExactlySurvivors(Generated(t), Recs(t))

(* one security named at 0.75 and at 0.65: only the 0.75 item is returned, *)
(* next to an item without a key                                           *)
SupersededPair(G, R) ==
    \E i, j \in 1..Len(G) :
        /\ SecurityKey(G[i]) # ""
        /\ SecurityKey(G[i]) = SecurityKey(G[j])
        /\ G[i].priority = PRIO_DIVERSIFICATION
        /\ G[j].priority = PRIO_MOVER_UP
        /\ \E k \in 1..Len(R) : SameItem(R[k], G[i])
        /\ ~\E k \in 1..Len(R) : SameItem(R[k], G[j])

C14_Witness ==
    /\ Done(1) /\ Uncapped(1)
    /\ SupersededPair(Generated(1), Recs(1))
    /\ \E k \in 1..Len(Recs(1)) : SecurityKey(Recs(1)[k]) = ""

-----------------------------------------------------------------------------
(* Order of items of equal priority                                        *)

(* the position in G of the item R[k] *)
PositionIn(G, item) == CHOOSE i \in 1..Len(G) : SameItem(item, G[i])

(* items of equal priority stand in R in the order they have in G *)
TiesInGeneratedOrder(G, R) ==
    \A a, b \in 1..Len(R) :
        (a < b /\ R[a].priority = R[b].priority)
            => PositionIn(G, R[a]) < PositionIn(G, R[b])

FirstOfType(R, type) == CHOOSE k \in 1..Len(R) : R[k].type = type

HasType(R, type) == \E k \in 1..Len(R) : R[k].type = type

(* C15: items of equal priority are returned in generator invocation       *)
(* order: a within_profitable_sector item stands before a                  *)
(* within_primary_sector item, and top_mover_up items keep their           *)
(* descending-change order.                                                *)
C15_TiesKeepGeneratorOrder ==
    \A t \in Threads : Done(t) =>
        /\ TiesInGeneratedOrder(Generated(t), Recs(t))
        /\ (HasType(Recs(t), "within_profitable_sector")
              /\ HasType(Recs(t), "within_primary_sector"))
             => FirstOfType(Recs(t), "within_profitable_sector")
                   < FirstOfType(Recs(t), "within_primary_sector")
        /\ \A a, b \in 1..Len(Recs(t)) :
              (a < b /\ Recs(t)[a].type = "top_mover_up" /\ Recs(t)[b].type = "top_mover_up")
                  => Recs(t)[a].evidence.change_pct.n >= Recs(t)[b].evidence.change_pct.n

(* both same-sector ideas are returned, at one priority, for different     *)
(* securities                                                              *)
C15_Witness ==
    /\ Done(1)
    /\ HasType(Recs(1), "within_profitable_sector")
    /\ HasType(Recs(1), "within_primary_sector")
    /\ Recs(1)[FirstOfType(Recs(1), "within_profitable_sector")].priority
          = Recs(1)[FirstOfType(Recs(1), "within_primary_sector")].priority
    /\ Len(Recs(1)) >= 3

-----------------------------------------------------------------------------
(* Portfolio checks: data quality and sector concentration                 *)

LabelPool == {None, NaN, Str(""), Str("Unknown"), Str(" N/A "), Str("Banking")}
SectorVolPool == {None, NaN, Num(0), Num(599), Num(600), Num(700)}
TotalVolPool == {None, Num(0), Num(1000), Num(-1000)}
SectorTradesPool == {None, Num(0), Num(3)}
IntervalPool == {<<None, None>>, <<Num(1), Num(2)>>, <<Num(2), Num(1)>>, <<Num(2), Num(2)>>}

PortfoliosProfile ==
    { [WithVolumes(WithSectors(BlankPortfolio, label, None, None, None), sv, tv, n)
          EXCEPT !.interval_start = iv[1], !.interval_end = iv[2]] :
        label \in LabelPool, sv \in SectorVolPool, tv \in TotalVolPool,
        n \in SectorTradesPool, iv \in IntervalPool }

InitProfile ==
    InitWith({[columns |-> AllColumns, rows |-> <<RowPool[3]>>]},
             {<<Request(p, None, "degrade", StaleAfter, None), NoRequest>> :
                 p \in PortfoliosProfile})

SpecProfile == InitProfile /\ [][Next]_vars

(* A label is unknown when it is null, blank or one of the words na, n/a,  *)
(* none, null, unknown in any case; the NaN of a missing cell is a label.  *)
UnknownLabel(v) ==
    \/ v = None
    \/ v.t = "str" /\ Lower(Strip(v.s)) \in {"", "na", "n/a", "none", "null", "unknown"}

Positive(v) == v.t = "num" /\ v.n > 0

OfType(R, type) == {k \in 1..Len(R) : R[k].type = type}

IntervalReversed(p) ==
    /\ p.interval_start.t = "num" /\ p.interval_end.t = "num"
    /\ p.interval_start.n > p.interval_end.n

DataQualityAsClaimed(p, R) ==
    /\ Cardinality(OfType(R, "data_quality")) =
          IF /\ UnknownLabel(p.mosttradedsector)
             /\ (Positive(p.tradesvolumeofmosttradedsector)
                   \/ Positive(p.numberoftradesinmosttradedsector))
          THEN 1 ELSE 0
    /\ \A k \in OfType(R, "data_quality") :
          /\ R[k].priority = PRIO_DATA_QUALITY
          /\ R[k].stale = FALSE
          /\ R[k].evidence.issues =
                IF IntervalReversed(p) THEN <<IssueInterval, IssueSector>>
                ELSE <<IssueSector>>

Volume(v) == IF v.t = "num" THEN v.n ELSE 0

ConcentrationAsClaimed(p, R) ==
    /\ Cardinality(OfType(R, "sector_concentration")) =
          IF /\ ~UnknownLabel(p.mosttradedsector)
             /\ Positive(p.totaltradesvolumein24)
             /\ p.tradesvolumeofmosttradedsector # NaN
             /\ 100 * Volume(p.tradesvolumeofmosttradedsector)
                   >= 60 * Volume(p.totaltradesvolumein24)
          THEN 1 ELSE 0
    /\ \A k \in OfType(R, "sector_concentration") :
          /\ R[k].priority = PRIO_CONCENTRATION
          /\ R[k].evidence.sector_mentioned = p.mosttradedsector
          (* the share in ten-thousandths, rounded *)
          /\ R[k].evidence.sector_share.n * Volume(p.totaltradesvolumein24)
                = 10000 * Volume(p.tradesvolumeofmosttradedsector)

-----------------------------------------------------------------------------
(* What Diversification suggests                                           *)

(* the normalized sector of a row of table m *)
NormalizedSector(m, row) ==
    IF "sector" \in m.columns THEN Str(std_sector_11(row.sector)) ELSE Str("Unknown")

UserSectorStd(p) == Str(get_user_sector_labels(p).std)

RowChange(row) == ToNumeric(row.change_pct)

(* the row the item suggests *)
Suggests(item, row) ==
    /\ item.evidence.alt_stock = Str(ToStr(row.name))
    /\ item.evidence.change_pct = RowChange(row)

(* a row with strictly positive change_pct outside the user's sector *)
OutsideRow(m, p, row) ==
    Positive(RowChange(row)) /\ NormalizedSector(m, row) # UserSectorStd(p)

(* the same, the sector being compared only when the user's normalized     *)
(* sector is known and the table has sectors                               *)
CandidateRow(m, p, row) ==
    /\ Positive(RowChange(row))
    /\ ("sector" \in m.columns /\ ~UnknownLabel(UserSectorStd(p)))
          => NormalizedSector(m, row) # UserSectorStd(p)

NoDiversificationWithoutTable(m, R) ==
    (m.rows = << >> \/ "name" \notin m.columns) => OfType(R, "diversification") = {}

(* C19 as claimed: the suggested security is a row with strictly positive  *)
(* change_pct whose normalized sector differs from the user's normalized   *)
(* sector, and no other such row has a higher change_pct; nothing is       *)
(* emitted without a table, a name column or such a row.                   *)
DiversificationOutside(m, p, R) ==
    /\ \A k \in OfType(R, "diversification") :
          \E i \in 1..Len(m.rows) :
              /\ Suggests(R[k], m.rows[i])
              /\ OutsideRow(m, p, m.rows[i])
              /\ \A j \in 1..Len(m.rows) :
                    OutsideRow(m, p, m.rows[j])
                        => RowChange(m.rows[j]).n <= RowChange(m.rows[i]).n
    /\ NoDiversificationWithoutTable(m, R)
    /\ (\A i \in 1..Len(m.rows) : ~OutsideRow(m, p, m.rows[i]))
          => OfType(R, "diversification") = {}

DiversificationAmongCandidates(m, p, R) ==
    /\ \A k \in OfType(R, "diversification") :
          \E i \in 1..Len(m.rows) :
              /\ Suggests(R[k], m.rows[i])
              /\ CandidateRow(m, p, m.rows[i])
              /\ \A j \in 1..Len(m.rows) :
                    CandidateRow(m, p, m.rows[j])
                        => RowChange(m.rows[j]).n <= RowChange(m.rows[i]).n
    /\ NoDiversificationWithoutTable(m, R)
    /\ (\A i \in 1..Len(m.rows) : ~CandidateRow(m, p, m.rows[i]))
          => OfType(R, "diversification") = {}

PassedOver(m, p, R) ==
    \E k \in OfType(R, "diversification") : \E j \in 1..Len(m.rows) :
        /\ Positive(RowChange(m.rows[j]))
        /\ RowChange(m.rows[j]).n > R[k].evidence.change_pct.n
        /\ NormalizedSector(m, m.rows[j]) = UserSectorStd(p)

-----------------------------------------------------------------------------
(* Which sector the user's normalized sector is the sector of              *)

(* the field is given: neither null nor empty *)
IsGiven(v) == v # None /\ v # Str("")

(* the normalized sector the claim names for portfolio p: the most-traded  *)
(* sector's (its pre-normalized field, else its label normalized) when a   *)
(* most-traded sector is given, else the most-profitable sector's          *)
ClaimedUserSector(p) ==
    IF IsGiven(p.mosttradedsector_std) THEN p.mosttradedsector_std
    ELSE IF IsGiven(p.mosttradedsector) THEN Str(std_sector_11(p.mosttradedsector))
    ELSE IF IsGiven(p.mostprofitablesector_std) THEN p.mostprofitablesector_std
    ELSE IF IsGiven(p.mostprofitablesector) THEN Str(std_sector_11(p.mostprofitablesector))
    ELSE Str("Unknown")

(* C20: the normalized sector Diversification uses is that of the          *)
(* most-traded sector whenever one is given (its label normalized when     *)
(* mosttradedsector_std is absent) and that of the most-profitable sector  *)
(* only when the most-traded one is absent, so it is the sector of the     *)
(* mentioned label.                                                        *)
C20_NormalizedSectorOfMentioned ==
    \A t \in Threads : Done(t) =>
        \A k \in OfType(Recs(t), "diversification") :
            Recs(t)[k].evidence.user_sector_std = ClaimedUserSector(req[t].portfolio)

-----------------------------------------------------------------------------
(* Same-sector ideas: the profitable and the primary sector                *)

(* rows of the Energy and Financials buckets: a gainer, a loser, a flat    *)
(* one, one without a name and one whose change_pct does not parse         *)
WithinPool ==
    << MarketRow(Str("ENP"), Num(4), Str("Energy")),
       MarketRow(Str("ENN"), Num(-2), Str(" ENERGY ")),
       MarketRow(NaN, Num(6), Str("Energy")),
       MarketRow(Str("ENX"), Str("n/a"), Str("Energy")),
       MarketRow(Str("FIN"), Num(3), Str("Banking")),
       MarketRow(Str("FIZ"), Num(0), Str("Investment")) >>

TradedStdPool == {None, NaN, Str(""), Str("Unknown"), Str("Energy"), Str("Financials")}
ProfitableStdPool ==
    {None, NaN, Str(""), Str(" n/a "), Str("energy"), Str("Energy"), Str("Financials")}

PortfoliosWithin ==
    { WithSectors(BlankPortfolio, mts, None, mts_std, mps_std) :
        mts \in {None, Str("Energy")},
        mts_std \in TradedStdPool, mps_std \in ProfitableStdPool }

InitWithin ==
    InitWith(Tables(WithinPool, AllColumns),
             {<<Request(p, None, "off", StaleAfter, None), NoRequest>> :
                 p \in PortfoliosWithin})

SpecWithin == InitWithin /\ [][Next]_vars

(* what _suggest_within_profitable_sector does in the call of thread t *)
WithinProfitable(t) == RunStage(4, req[t].portfolio, market_df0, sortTies)

(* a row of the sector whose change_pct parses *)
InSectorRow(m, sector, row) ==
    NormalizedSector(m, row) = sector /\ RowChange(row).t = "num"

(* the item surfaces this row for this sector *)
Surfaces(item, sector, row) ==
    /\ item.evidence.stock = row.name
    /\ item.evidence.sector_std = sector
    /\ item.evidence.change_pct = RowChange(row)

(* the row has the highest change_pct of the rows of its sector *)
TopOfSector(m, sector, i) ==
    /\ InSectorRow(m, sector, m.rows[i])
    /\ \A j \in 1..Len(m.rows) :
          InSectorRow(m, sector, m.rows[j])
              => RowChange(m.rows[j]).n <= RowChange(m.rows[i]).n

WithinProfitableAsClaimed(m, sector, g) ==
    /\ ~g.raised
    /\ Len(g.items) <= 1
    /\ \A k \in 1..Len(g.items) :
          /\ g.items[k].type = "within_profitable_sector"
          /\ g.items[k].priority = PRIO_WITHIN_PROFITABLE
          /\ \E i \in 1..Len(m.rows) :
                TopOfSector(m, sector, i) /\ Surfaces(g.items[k], sector, m.rows[i])
    /\ g.items # << >> <=>
          /\ ~UnknownLabel(sector)
          /\ \E i \in 1..Len(m.rows) : InSectorRow(m, sector, m.rows[i])

(* C21: when the pre-normalized most-profitable sector is known,           *)
(* WithinProfitableSector surfaces the row with the highest change_pct of  *)
(* the rows whose normalized sector is that sector, be it zero or          *)
(* negative, at priority 0.70; it emits nothing when that sector is absent *)
(* or unknown or no row of it has a parseable change_pct.                  *)
C21_TopRowOfProfitableSector ==
    \A t \in Threads : Called(t) =>
        WithinProfitableAsClaimed(market_df0, req[t].portfolio.mostprofitablesector_std,
                                  WithinProfitable(t))

(* what _suggest_within_primary_sector does in the call of thread t *)
WithinPrimary(t) == RunStage(5, req[t].portfolio, market_df0, sortTies)

(* the primary sector: the pre-normalized most-traded sector, else the     *)
(* pre-normalized most-profitable sector, else unknown                     *)
PrimarySector(p) ==
    IF IsGiven(p.mosttradedsector_std) THEN p.mosttradedsector_std
    ELSE IF IsGiven(p.mostprofitablesector_std) THEN p.mostprofitablesector_std
    ELSE Str("Unknown")

(* a named row of the sector with change_pct > 0 *)
PositiveInSector(m, sector, row) ==
    /\ WellFormedRow(row)
    /\ Positive(RowChange(row))
    /\ NormalizedSector(m, row) = sector

TopPositiveOfSector(m, sector, i) ==
    /\ PositiveInSector(m, sector, m.rows[i])
    /\ \A j \in 1..Len(m.rows) :
          PositiveInSector(m, sector, m.rows[j])
              => RowChange(m.rows[j]).n <= RowChange(m.rows[i]).n

WithinPrimaryAsClaimed(m, sector, g, R) ==
    /\ ~g.raised
    /\ Len(g.items) <= 1
    /\ \A k \in 1..Len(g.items) :
          /\ g.items[k].type = "within_primary_sector"
          /\ g.items[k].priority = PRIO_WITHIN_PRIMARY
          /\ \E i \in 1..Len(m.rows) :
                TopPositiveOfSector(m, sector, i) /\ Surfaces(g.items[k], sector, m.rows[i])
    /\ g.items = << >> <=>
          \/ UnknownLabel(sector)
          \/ \A i \in 1..Len(m.rows) : ~PositiveInSector(m, sector, m.rows[i])
    /\ \A k \in OfType(R, "within_primary_sector") : g.items = <<R[k]>>

FallbackItem(m, p, R) ==
    /\ p.mosttradedsector_std = None
    /\ \E k \in OfType(R, "within_primary_sector") :
          /\ R[k].evidence.sector_std = p.mostprofitablesector_std
          /\ \E j \in 1..Len(m.rows) :
                /\ NormalizedSector(m, m.rows[j]) = p.mostprofitablesector_std
                /\ ~PositiveInSector(m, p.mostprofitablesector_std, m.rows[j])

-----------------------------------------------------------------------------
(* Movers: thresholds, caps, order and exclusion                           *)

(* nine gainers and seven losers in no particular order, one on each       *)
(* threshold, two pairs of equal change, three rows between the            *)
(* thresholds, a row without a name, one whose change_pct does not parse   *)
(* and rows named "NaN" and "Unknown"                                      *)
MoversPool ==
    << MarketRow(Str("U6"), Num(2), Str("Energy")),
       MarketRow(Str("U1"), Num(9), Str("Energy")),
       MarketRow(Str("M1"), Num(1), Str("Energy")),
       MarketRow(Str("D1"), Num(-3), Str("Energy")),
       MarketRow(Str("U3"), Num(7), Str("Energy")),
       MarketRow(Str("D5"), Num(-7), Str("Energy")),
       MarketRow(NaN, Num(10), Str("Energy")),
       MarketRow(Str("U2"), Num(8), Str("Energy")),
       MarketRow(Str("M2"), Num(-2), Str("Energy")),
       MarketRow(Str("U5"), Num(5), Str("Energy")),
       MarketRow(Str("D3"), Num(-5), Str("Energy")),
       MarketRow(Str("U4"), Num(6), Str("Energy")),
       MarketRow(Str("D2"), Num(-4), Str("Energy")),
       MarketRow(Str("U7"), Num(5), Str("Energy")),
       MarketRow(Str("BAD"), Str("n/a"), Str("Energy")),
       MarketRow(Str("D4"), Num(-6), Str("Energy")),
       MarketRow(Str("M3"), Num(0), Str("Energy")),
       MarketRow(Str("D6"), Num(-8), Str("Energy")),
       MarketRow(Str("D7"), Num(-5), Str("Energy")),
       MarketRow(Str("NaN "), Num(3), Str("Energy")),
       MarketRow(Str("Unknown"), Num(4), Str("Energy")) >>

(* the tables of consecutive rows of the pool *)
Windows(pool, columns) ==
    { [columns |-> columns, rows |-> SubSeq(pool, a, b)] :
        a \in 1..(Len(pool) + 1), b \in 0..Len(pool) }

(* mosttradedsecurity and mostprofitablesecurityname *)
SecurityPool ==
    { <<None, None>>, <<Str(" u1 "), None>>, <<Str("U2"), Str("D7")>>,
      <<Str("n/a"), Str("u1")>>, <<Str(""), NaN>>, <<Str("Unknown"), Str("d6 ")>> }

PortfoliosMovers ==
    { [BlankPortfolio EXCEPT !.mosttradedsecurity = pair[1],
                             !.mostprofitablesecurityname = pair[2]] :
        pair \in SecurityPool }

InitMovers ==
    InitWith(Windows(MoversPool, AllColumns),
             {<<Request(p, None, "off", StaleAfter, None), NoRequest>> :
                 p \in PortfoliosMovers})

SpecMovers == InitMovers /\ [][Next]_vars

(* what _highlight_movers_split returns in the call of thread t *)
Movers(t) == RunStage(6, req[t].portfolio, market_df0, sortTies).items

(* the row is named as the client's most-traded or most-profitable         *)
(* security, names compared trimmed and lower-cased; an unknown or blank   *)
(* client security names no row                                            *)
ExcludedRow(p, row) ==
    \E v \in {p.mosttradedsecurity, p.mostprofitablesecurityname} :
        /\ ~UnknownLabel(v)
        /\ Lower(Strip(ToStr(row.name))) = Lower(Strip(ToStr(v)))

(* a row with a name and a parseable change_pct that is not excluded *)
EligibleRow(p, row) == WellFormedRow(row) /\ ~ExcludedRow(p, row)

(* change_pct >= 0.02, resp. <= -0.03 *)
UpRow(p, row) == EligibleRow(p, row) /\ RowChange(row).n >= 2
DownRow(p, row) == EligibleRow(p, row) /\ RowChange(row).n <= -3

UpRows(m, p) == {i \in 1..Len(m.rows) : UpRow(p, m.rows[i])}
DownRows(m, p) == {i \in 1..Len(m.rows) : DownRow(p, m.rows[i])}

AtMost5(n) == IF n < 5 THEN n ELSE 5

(* the item is built from this row *)
MoverOf(item, row) ==
    item.evidence.stock = row.name /\ item.evidence.change_pct = RowChange(row)

(* the items I[from..to] are of the given type and priority, one for each  *)
(* of at most 5 rows of the set, these being the strongest of the set in   *)
(* the direction sign (1: largest first, -1: most negative first), in that *)
(* order                                                                   *)
StrongestOf(m, rows, I, from, to, type, priority, sign) ==
    /\ to - from + 1 = AtMost5(Cardinality(rows))
    /\ \A k \in from..to :
          /\ I[k].type = type
          /\ I[k].priority = priority
          /\ \E i \in rows : MoverOf(I[k], m.rows[i])
    /\ \A k, l \in from..to :
          k < l => /\ I[k].evidence.stock # I[l].evidence.stock
                   /\ sign * I[k].evidence.change_pct.n >= sign * I[l].evidence.change_pct.n
    /\ \A i \in rows :
          \/ \E k \in from..to : MoverOf(I[k], m.rows[i])
          \/ \A k \in from..to :
                sign * RowChange(m.rows[i]).n <= sign * I[k].evidence.change_pct.n

MoversAsClaimed(m, p, I, ups) ==
    /\ StrongestOf(m, UpRows(m, p), I, 1, ups, "top_mover_up", 650, 1)
    /\ StrongestOf(m, DownRows(m, p), I, ups + 1, Len(I), "watchlist_drop", 500, -1)

(* C23: MoversSplit returns top_mover_up items (priority 0.65) exactly for *)
(* the up-to-5 non-excluded rows with the largest change_pct among those   *)
(* with change_pct >= 0.02, in descending order of change, followed by     *)
(* watchlist_drop items (priority 0.50) exactly for the up-to-5            *)
(* non-excluded rows with the most negative change_pct among those with    *)
(* change_pct <= -0.03, in ascending order; a row with                     *)
(* -0.03 < change_pct < 0.02 yields no item and both boundaries are        *)
(* inclusive.                                                              *)
C23_MoversSplitTopFive ==
    \A t \in Threads : Called(t) =>
        MoversAsClaimed(market_df0, req[t].portfolio, Movers(t),
                        Cardinality(OfType(Movers(t), "top_mover_up")))

(* more than 5 gainers, so that one is left out, and the row that is       *)
(* exactly on the lower threshold among fewer than 5 losers                *)
CapAndBoundary(m, p, I) ==
    /\ Cardinality(UpRows(m, p)) > 5
    /\ Cardinality(OfType(I, "top_mover_up")) = 5
    /\ \E k \in OfType(I, "watchlist_drop") : I[k].evidence.change_pct = Num(-3)
    /\ \E i \in 1..Len(m.rows) : RowChange(m.rows[i]) \in {Num(1), Num(-2)}

C23_Witness == Called(1) /\ CapAndBoundary(market_df0, req[1].portfolio, Movers(1))

(* the movers of portfolio p on table m *)
MoversOn(p, m) == highlight_movers_split(m, Exclude(p), sortTies).items

(* table m without the rows named as one of the client's securities *)
WithoutExcluded(m, p) ==
    [m EXCEPT !.rows = SelectSeq(m.rows, LAMBDA row : ~ExcludedRow(p, row))]

IsMover(item) == item.type \in {"top_mover_up", "watchlist_drop"}

(* the item references the security named v *)
References(item, v) ==
    Lower(Strip(ToStr(item.evidence.stock))) = Lower(Strip(ToStr(v)))

MoversExclusion(m, p, R) ==
    /\ \A k \in 1..Len(R) : IsMover(R[k]) =>
          \A v \in {p.mosttradedsecurity, p.mostprofitablesecurityname} :
              ~UnknownLabel(v) => ~References(R[k], v)
    /\ MoversOn(p, m) = MoversOn(BlankPortfolio, WithoutExcluded(m, p))

BothScansExclude(m, p, R) ==
    /\ \E i \in 1..Len(m.rows) :
          /\ ExcludedRow(p, m.rows[i]) /\ WellFormedRow(m.rows[i])
          /\ RowChange(m.rows[i]).n >= 2
    /\ \E i \in 1..Len(m.rows) :
          /\ ExcludedRow(p, m.rows[i]) /\ WellFormedRow(m.rows[i])
          /\ RowChange(m.rows[i]).n <= -3
    /\ OfType(R, "top_mover_up") # {}
    /\ OfType(R, "watchlist_drop") # {}

-----------------------------------------------------------------------------
(* Data quality and sector concentration exclude each other                *)

ExclusiveByLabel(p, R) ==
    /\ OfType(R, "data_quality") = {} \/ OfType(R, "sector_concentration") = {}
    /\ OfType(R, "data_quality") # {} => UnknownLabel(p.mosttradedsector)
    /\ OfType(R, "sector_concentration") # {} => ~UnknownLabel(p.mosttradedsector)

(* C25: no output holds both a data_quality item and a                     *)
(* sector_concentration item: a data_quality item is emitted only when the *)
(* most-traded sector label is unknown or blank, and then                  *)
(* SectorConcentration is skipped.                                         *)
C25_DataQualityExcludesConcentration ==
    \A t \in Threads : Done(t) => ExclusiveByLabel(req[t].portfolio, Recs(t))

(* a data_quality item for a portfolio whose volumes alone would raise a   *)
(* concentration item, with a reversed interval as well                    *)
C25_Witness ==
    /\ Done(1)
    /\ OfType(Recs(1), "data_quality") # {}
    /\ IntervalReversed(req[1].portfolio)
    /\ req[1].portfolio.tradesvolumeofmosttradedsector = Num(700)
    /\ req[1].portfolio.totaltradesvolumein24 = Num(1000)

-----------------------------------------------------------------------------
(* The order of the types in an output                                     *)

(* a row for each generator: the diversification pick, the profitable and  *)
(* the primary sector's mover, a further gainer and two losers             *)
OrderPool ==
    << MarketRow(Str("BNK"), Num(9), Str("Banking")),
       MarketRow(Str("ENG"), Num(5), Str("Energy")),
       MarketRow(Str("FOD"), Num(4), Str("Food")),
       MarketRow(Str("TEC"), Num(3), Str("Technology")),
       MarketRow(Str("DRP"), Num(-4), Str("Trade")),
       MarketRow(Str("ENL"), Num(-6), Str("Energy")) >>

(* ClientC with a pre-normalized most-traded sector *)
ClientD ==
    WithSectors(ClientC, Str("Unknown"), None, Str("Consumer Staples"), Str("Energy"))

PortfoliosOrder == {ClientA, ClientB, ClientC, ClientD}

OrderCapPool == {None, Num(1), Num(MaxCap), Num(MaxCap + 3)}

InitOrder ==
    InitWith(Windows(OrderPool, AllColumns),
             {<<Request(p, k, f, StaleAfter, a), NoRequest>> :
                 p \in PortfoliosOrder, k \in OrderCapPool,
                 f \in PolicyPool, a \in AsofPool})

SpecOrder == InitOrder /\ [][Next]_vars

(* the priority of each type, in thousandths *)
TypePriority(type) ==
    CASE type = "sector_concentration" -> 900
      [] type = "diversification" -> 750
      [] type = "within_profitable_sector" -> 700
      [] type = "within_primary_sector" -> 700
      [] type = "top_mover_up" -> 650
      [] type = "watchlist_drop" -> 500
      [] type = "data_quality" -> 300

(* the place of each type in an output *)
TypeRank(type) ==
    CASE type = "sector_concentration" -> 1
      [] type = "diversification" -> 2
      [] type = "within_profitable_sector" -> 3
      [] type = "within_primary_sector" -> 4
      [] type = "top_mover_up" -> 5
      [] type = "watchlist_drop" -> 6
      [] type = "data_quality" -> 7

(* the output of the same call without a cap *)
UncappedRecs(t) ==
    generate_recommendations([req[t] EXCEPT !.max_items = None],
                             market_df0, frame[t].now, sortTies).result.recommendations

PriorityByType(G) == \A i \in 1..Len(G) : G[i].priority = TypePriority(G[i].type)

GroupedByType(R) ==
    /\ \A i, j \in 1..Len(R) : i < j => TypeRank(R[i].type) <= TypeRank(R[j].type)
    /\ OfType(R, "sector_concentration") \subseteq {1}
    /\ OfType(R, "data_quality") \subseteq {Len(R)}

(* the data_quality item is generated first and goes before any other item *)
(* when the cap removes something                                          *)
DataQualityFirstOut(G, R, U) ==
    OfType(G, "data_quality") # {} =>
        /\ OfType(G, "data_quality") = {1}
        /\ OfType(U, "data_quality") = {Len(U)}
        /\ OfType(R, "data_quality") # {} <=> R = U

(* C26: the priority of an item before degradation is fixed by its type    *)
(* (sector_concentration 0.90, diversification 0.75,                       *)
(* within_profitable_sector 0.70, within_primary_sector 0.70,              *)
(* top_mover_up 0.65, watchlist_drop 0.50, data_quality 0.30), so the      *)
(* items of every output are grouped by type in that order: a              *)
(* sector_concentration item is first, and a data_quality item, although   *)
(* generated first, is last and is the first item a cap removes.           *)
C26_GroupedByTypeInPriorityOrder ==
    \A t \in Threads : Done(t) =>
        /\ PriorityByType(Generated(t))
        /\ GroupedByType(Recs(t))
        /\ DataQualityFirstOut(Generated(t), Recs(t), UncappedRecs(t))

(* a stale, degraded and capped output of five types that lost only its    *)
(* data_quality item                                                       *)
C26_Witness ==
    /\ Done(1)
    /\ StaleCall(1) /\ req[1].freshness_policy = "degrade"
    /\ OfType(Generated(1), "data_quality") # {}
    /\ OfType(Recs(1), "data_quality") = {}
    /\ Len(Recs(1)) + 1 = Len(UncappedRecs(1))
    /\ Cardinality({Recs(1)[k].type : k \in 1..Len(Recs(1))}) = 5

====
